---- MODULE Spec2Model ----
(***************************************************************************)
(* SERVONIX bus-complaint management system.                               *)
(*                                                                         *)
(* State machine of the two subsystems the specification documents:        *)
(*   - the auto-assignment resolver (services/auto_assignment.py) together *)
(*     with the head-only handlers that write the tables it reads          *)
(*     (routes/head.py, routes/districts.py);                              *)
(*   - the OTP registration / password-reset flows (routes/auth.py).       *)
(*                                                                         *)
(* The store is the SQLite deployment of database/connection.py: tables    *)
(* are sets of rows, ids come from AUTOINCREMENT counters and are never    *)
(* reused, foreign keys are not enforced (get_db sets no foreign_keys      *)
(* pragma).  NULL is modelled by 0 for ids and by "" for text.  The        *)
(* PostgreSQL deployment (DATABASE_URL set) differs where two write        *)
(* transactions overlap; the statement-level handlers model both.          *)
(***************************************************************************)
EXTENDS Integers, Sequences, FiniteSets, TLC

VARIABLES
    DATABASE_URL,        \* environment: is DATABASE_URL set (PostgreSQL) or not (SQLite)
    development_mode,    \* environment: the e-mail service has no credentials
    routes_has_code,     \* schema of the routes table: does it have a `code` column
    users,               \* table users
    routes,              \* table routes
    buses,               \* table buses
    admin_assignments,   \* table admin_assignments (its id column, which no query
                         \* reads, is left out)
    seq,                 \* AUTOINCREMENT counters, one per table; the numbers of
                         \* codes and verification tokens generated so far
    resolved,            \* last call of find_admin_for_complaint: arguments and result
    now,                 \* wall clock, in ticks
    registration_otp,    \* table registration_otp
    password_reset_otp,  \* table password_reset_otp
    otp_rate_limit,      \* table otp_rate_limit
    mailbox,             \* plaintext codes handed to the e-mail collaborator, with
                         \* what became of them (sent last, accepted by a verify call)
    tokens,              \* registration tokens (signed JWTs) returned to clients
                         \* whose exp has not passed
    vtokens,             \* verification tokens returned by verify-otp
    resp,                \* the request and HTTP response of the auth handler that
                         \* ran last, while the state it left stands
    worker,              \* in-flight reset-password requests (one per worker)
    complaint_type_not_null,  \* schema of the complaints table: is its
                         \* complaint_type column NOT NULL without a default
    complaints,          \* table complaints
    creq                 \* the request and HTTP response of the complaint handler
                         \* that ran last

vars == <<DATABASE_URL, development_mode, routes_has_code, users, routes, buses, admin_assignments, seq, resolved,
          now, registration_otp, password_reset_otp, otp_rate_limit, mailbox,
          tokens, vtokens, resp, worker, complaint_type_not_null, complaints, creq>>

complaintVars == <<complaint_type_not_null, complaints, creq>>
envVars == <<DATABASE_URL, development_mode, routes_has_code>>
storeVars == <<envVars, users, routes, buses, admin_assignments, seq, complaintVars>>
otpVars == <<now, registration_otp, password_reset_otp, otp_rate_limit, mailbox,
             tokens, vtokens, resp, worker>>

(***************************************************************************)
(* Bounds of the model                                                     *)
(***************************************************************************)
MaxRoutes == 2
MaxAdmins == 2
MaxBuses == 1
MaxRouteIds == 2

NULL == 0
HeadId == 1

\* the routes the head creates, and the route identifiers complaints carry:
\* one is the name of a route, one the code of a route, one matches no route
RouteCatalogue == {[code |-> "E7", name |-> "Express-7"],
                   [code |-> "12A", name |-> "Route 12A"]}
RouteInputs == {"Express-7", "12A", "Unknown-99"}
BusNumbers == {"TN-01"}
DistrictIds == {1}

\* An e-mail address as typed: its lower-case form and whether it was typed
\* with capital letters.  str.lower() clears the flag.
Email(n) == [lead |-> 0, core |-> n, trail |-> 0, upper |-> FALSE]
lower(e) == [e EXCEPT !.upper = FALSE]

\* A text input as typed: its core and the white space around it.
\* str.strip() removes the white space.
Text(c) == [lead |-> 0, core |-> c, trail |-> 0]
strip(t) == [t EXCEPT !.lead = 0, !.trail = 0]

AdminEmails == {Email("admin1@servonix.com"), Email("admin2@servonix.com")}
HeadEmail == Email("head@servonix.com")

(***************************************************************************)
(* Text comparison as SQLite does it for TEXT values (BINARY collation:    *)
(* memcmp of the bytes).  Texts that get compared are given by their bytes. *)
(***************************************************************************)
RECURSIVE TextLess(_, _)
TextLess(a, b) ==
    IF b = <<>> THEN FALSE
    ELSE IF a = <<>> THEN TRUE
    ELSE IF Head(a) # Head(b) THEN Head(a) < Head(b)
    ELSE TextLess(Tail(a), Tail(b))

\* 'high', 'medium', 'low' as ASCII bytes
Bytes(p) ==
    CASE p = "high"   -> <<104, 105, 103, 104>>
      [] p = "medium" -> <<109, 101, 100, 105, 117, 109>>
      [] p = "low"    -> <<108, 111, 119>>

priority_levels == <<"high", "medium", "low">>

Min(a, b) == IF a < b THEN a ELSE b

\* werkzeug generate_password_hash / check_password_hash: a salted one-way
\* hash; check succeeds exactly for the password that was hashed.
generate_password_hash(p) == <<"pbkdf2", p>>
check_password_hash(h, p) == h = <<"pbkdf2", p>>

NoResult == [found |-> FALSE, admin_id |-> NULL, district_id |-> NULL, raised |-> FALSE]
\* the call did not return: an exception left it
Raised == [NoResult EXCEPT !.raised = TRUE]

\* `resolved` holds the arguments and the return value of a call of
\* find_admin_for_complaint made in the current state of the store
NoCall == [called |-> FALSE, route |-> "", bus |-> "", fault |-> "none",
           result |-> NoResult]

(***************************************************************************)
(* Auto-assignment resolver                                                *)
(***************************************************************************)

\* the query without its u.is_active = 1 condition
MatchingRowsAnyStatus(complaint_route) ==
    { j \in [aa : admin_assignments, r : routes, u : users] :
        /\ j.aa.route_id = j.r.id
        /\ j.aa.admin_id = j.u.id
        /\ (j.r.name = complaint_route \/ j.r.code = complaint_route)
        /\ j.u.role = "admin"
        /\ j.r.is_active }

\* rows of the STRICT ROUTE MATCHING QUERY before ORDER BY / LIMIT
MatchingRows(complaint_route) ==
    { j \in [aa : admin_assignments, r : routes, u : users] :
        /\ j.aa.route_id = j.r.id
        /\ j.aa.admin_id = j.u.id
        /\ (j.r.name = complaint_route \/ j.r.code = complaint_route)
        /\ j.u.is_active
        /\ j.u.role = "admin"
        /\ j.r.is_active }

\* ORDER BY aa.priority DESC: row a sorts before row b.  The column holds the
\* strings written by create_admin / update_admin_routes, compared as TEXT.
SortsBefore(a, b) == TextLess(Bytes(b.aa.priority), Bytes(a.aa.priority))

\* ORDER BY aa.priority DESC LIMIT 1: the rows that can come first.  Rows of
\* equal priority come in an order SQLite does not define.
FirstRows(rows) == { a \in rows : \A b \in rows : ~SortsBefore(b, a) }

\* the bus lookup without its b.is_active = 1 condition
BusRoutesAnyBus(bus_number) ==
    { IF j.r.name # "" THEN j.r.name ELSE j.r.code :
        j \in { k \in [b : buses, r : routes] :
                  /\ k.b.route_id = k.r.id
                  /\ k.b.bus_number = bus_number
                  /\ k.r.is_active } }

\* the route a bus number resolves to (bus lookup of find_admin_for_complaint)
BusRoutes(bus_number) ==
    { IF j.r.name # "" THEN j.r.name ELSE j.r.code :
        j \in { k \in [b : buses, r : routes] :
                  /\ k.b.route_id = k.r.id
                  /\ k.b.bus_number = bus_number
                  /\ k.b.is_active
                  /\ k.r.is_active } }

\* the routes the call goes on with ("" when there is none)
ComplaintRoutes(route_number, bus_number) ==
    IF route_number = "" /\ bus_number # "" /\ BusRoutes(bus_number) # {}
    THEN BusRoutes(bus_number)
    ELSE {route_number}

\* the values find_admin_for_complaint can return.  Both queries name r.code:
\* on a routes table without that column they raise, and the call returns None.
find_admin_for_complaint(route_number, bus_number) ==
    IF ~routes_has_code
    THEN {NoResult}
    ELSE UNION { IF cr = "" THEN {NoResult}
                 ELSE IF MatchingRows(cr) = {} THEN {NoResult}
                 ELSE { [found |-> TRUE, admin_id |-> j.aa.admin_id,
                         district_id |-> j.r.district_id, raised |-> FALSE] :
                        j \in FirstRows(MatchingRows(cr)) } :
                 cr \in ComplaintRoutes(route_number, bus_number) }

FindAdminForComplaint ==
    \E route_number \in RouteInputs \cup {""}, bus_number \in BusNumbers \cup {""} :
    \E res \in find_admin_for_complaint(route_number, bus_number) :
        /\ resolved' = [called |-> TRUE, route |-> route_number, bus |-> bus_number,
                        fault |-> "none", result |-> res]
        /\ UNCHANGED <<storeVars, otpVars>>

\* what the storage can do to a call: fail to open the connection, or fail
\* a query on the open connection
StorageFaults == {"connect", "query"}

\* the call on a failing storage.  get_db() and conn.cursor() come before
\* the try: what they raise leaves the call.  What a query raises is caught
\* by `except Exception`, which returns None.
find_admin_for_complaint_on(fault, route_number, bus_number) ==
    IF fault = "connect" THEN {Raised} ELSE {NoResult}

FindAdminForComplaintStorageFault ==
    \E fault \in StorageFaults, route_number \in RouteInputs \cup {""},
       bus_number \in BusNumbers \cup {""} :
    \E res \in find_admin_for_complaint_on(fault, route_number, bus_number) :
        /\ resolved' = [called |-> TRUE, route |-> route_number, bus |-> bus_number,
                        fault |-> fault, result |-> res]
        /\ UNCHANGED <<storeVars, otpVars>>

(***************************************************************************)
(* Head-only handlers that write the tables the resolver reads             *)
(***************************************************************************)

\* POST /routes
create_route ==
    \E rt \in RouteCatalogue, district_id \in DistrictIds :
    LET code == rt.code
        name == rt.name
    IN  /\ routes_has_code                     \* else SELECT ... code raises: 500
        /\ seq.routes <= MaxRoutes
        /\ ~\E r \in routes : /\ (r.code = code \/ r.name = name)
                              /\ (district_id # NULL => r.district_id = district_id)
        /\ routes' = routes \cup {[id |-> seq.routes, code |-> code, name |-> name,
                                   district_id |-> district_id, is_active |-> TRUE]}
        /\ seq' = [seq EXCEPT !.routes = @ + 1]
        /\ resolved' = NoCall
        /\ UNCHANGED <<envVars, complaintVars, users, buses, admin_assignments, otpVars>>

\* PUT /routes/<id>: the fields present in the request are overwritten
update_route ==
    \E r \in routes, name \in {""}, is_active \in {"true", "false"} :
        /\ routes' = (routes \ {r}) \cup
               {[r EXCEPT !.name = IF name # "" THEN name ELSE @,
                          !.is_active = IF is_active = "absent" THEN @
                                        ELSE is_active = "true"]}
        /\ resolved' = NoCall
        /\ UNCHANGED <<envVars, complaintVars, users, buses, admin_assignments, seq, otpVars>>

\* DELETE /routes/<id>: soft delete
delete_route ==
    \E r \in routes :
        /\ routes' = (routes \ {r}) \cup {[r EXCEPT !.is_active = FALSE]}
        /\ resolved' = NoCall
        /\ UNCHANGED <<envVars, complaintVars, users, buses, admin_assignments, seq, otpVars>>

\* POST /buses
create_bus ==
    \E bus_number \in BusNumbers, route_id \in 0..MaxRoutes :
        /\ seq.buses <= MaxBuses
        /\ ~\E b \in buses : b.bus_number = bus_number
        /\ buses' = buses \cup {[id |-> seq.buses, bus_number |-> bus_number,
                                 route_id |-> route_id, is_active |-> TRUE]}
        /\ seq' = [seq EXCEPT !.buses = @ + 1]
        /\ resolved' = NoCall
        /\ UNCHANGED <<envVars, complaintVars, users, routes, admin_assignments, otpVars>>

\* DELETE /buses/<id>: soft delete
delete_bus ==
    \E b \in buses :
        /\ buses' = (buses \ {b}) \cup {[b EXCEPT !.is_active = FALSE]}
        /\ resolved' = NoCall
        /\ UNCHANGED <<envVars, complaintVars, users, routes, admin_assignments, seq, otpVars>>

\* the rows create_admin / update_admin_routes insert for route_ids
RECURSIVE NewAssignments(_, _, _)
NewAssignments(admin_id, route_ids, i) ==
    IF i > Len(route_ids) THEN {}
    ELSE LET route_id == route_ids[i]
             route_info == { r \in routes : r.id = route_id }
             route_district_id == IF route_info = {} THEN NULL
                                  ELSE (CHOOSE r \in route_info : TRUE).district_id
             \* priority_levels[min(i, len(priority_levels) - 1)], i counted from 0
             priority == priority_levels[Min(i - 1, Len(priority_levels) - 1) + 1]
         IN {[admin_id |-> admin_id, route_id |-> route_id,
              district_id |-> route_district_id, priority |-> priority]}
            \cup NewAssignments(admin_id, route_ids, i + 1)

RouteIdLists == UNION { [1..n -> 1..MaxRoutes] : n \in 1..MaxRouteIds }

RoutesValid(route_ids) ==
    \A i \in 1..Len(route_ids) : \E r \in routes : r.id = route_ids[i] /\ r.is_active

\* POST /create-admin
create_admin ==
    \E email \in AdminEmails, route_ids \in RouteIdLists :
        /\ seq.users <= 1 + MaxAdmins
        /\ ~\E u \in users : u.email = email
        /\ RoutesValid(route_ids)
        /\ users' = users \cup {[id |-> seq.users, name |-> "admin", email |-> email,
                                 password_hash |-> generate_password_hash(Text("Admin@123")),
                                 role |-> "admin", is_active |-> TRUE]}
        /\ admin_assignments' = admin_assignments \cup
               NewAssignments(seq.users, route_ids, 1)
        /\ seq' = [seq EXCEPT !.users = @ + 1]
        /\ resolved' = NoCall
        /\ UNCHANGED <<envVars, complaintVars, routes, buses, otpVars>>

\* PUT /admins/<id>/toggle
toggle_admin_status ==
    \E admin \in users :
        /\ admin.role = "admin"
        /\ users' = (users \ {admin}) \cup {[admin EXCEPT !.is_active = ~@]}
        /\ resolved' = NoCall
        /\ UNCHANGED <<envVars, complaintVars, routes, buses, admin_assignments, seq, otpVars>>

\* PUT /admins/<id>/routes: delete all the admin's rows, insert the new ones,
\* commit once
update_admin_routes ==
    \E admin \in users, route_ids \in RouteIdLists :
        /\ admin.role = "admin"
        /\ RoutesValid(route_ids)
        /\ admin_assignments' =
               { a \in admin_assignments : a.admin_id # admin.id } \cup
               NewAssignments(admin.id, route_ids, 1)
        /\ resolved' = NoCall
        /\ UNCHANGED <<envVars, complaintVars, users, routes, buses, seq, otpVars>>

\* DELETE /admins/<id>/assignments
delete_admin_assignments ==
    \E admin \in users :
        /\ admin.role = "admin"
        /\ admin_assignments' = { a \in admin_assignments : a.admin_id # admin.id }
        /\ resolved' = NoCall
        /\ UNCHANGED <<envVars, complaintVars, users, routes, buses, seq, otpVars>>

\* DELETE /admins/<id>: the users row goes; without foreign-key enforcement
\* the admin's admin_assignments rows stay
delete_admin ==
    \E admin \in users :
        /\ admin.role = "admin"
        /\ users' = users \ {admin}
        /\ resolved' = NoCall
        /\ UNCHANGED <<envVars, complaintVars, routes, buses, admin_assignments, seq, otpVars>>

(***************************************************************************)
(* OTP registration and password-reset flows (routes/auth.py)              *)
(***************************************************************************)

OTP_EXPIRY_MINUTES == 5
OTP_RATE_LIMIT_MAX == 3
OTP_RATE_LIMIT_WINDOW == 10
OTP_LENGTH == 6
\* timedelta(minutes=OTP_EXPIRY_MINUTES + 2): grace period of the token's exp
TOKEN_GRACE_MINUTES == 2
MIN_PASSWORD_LENGTH == 6
MAX_PASSWORD_LENGTH == 128
MIN_NAME_LENGTH == 2

\* clock ticks per minute (datetime differences are taken in seconds and
\* divided by 60; one tick stands for half a minute)
TicksPerMinute == 2
Minutes(m) == m * TicksPerMinute

\* Bounds of the model
MaxTime == 22       \* SpecRate stops the clock after this many ticks
MaxMinutes == 8     \* the minute-by-minute specifications stop the clock here
MaxCodes == 2       \* codes generated in one behaviour of SpecReg, SpecReset, SpecRace
MaxRequests == 4    \* codes generated in one behaviour of SpecRate
MaxExpiryCodes == 1 \* codes generated in one behaviour of SpecExpiry
MaxUserId == 3      \* largest id of a users row

NewEmail == Email("new@example.com")
EmailInputs == {NewEmail, [NewEmail EXCEPT !.upper = TRUE]}
ResetEmailInputs == {HeadEmail, [HeadEmail EXCEPT !.upper = TRUE], NewEmail}
Names == {Text("Asha")}
RegPasswords == {Text("secret1"), Text("abc")}
Passwords == {Text("Head@1234"), Text("hunter22"), [Text("hunter22") EXCEPT !.trail = 1],
              Text("abc")}
Codes == {"111111", "222222"}
OtpInputs == {Text(c) : c \in Codes} \cup {Text("12ab")}
VTokenNames == <<"vtok-1", "vtok-2", "vtok-3", "vtok-4", "vtok-5", "vtok-6">>

\* len() of a text
CoreLength(c) ==
    CASE c = "" -> 0
      [] c = "abc" -> 3
      [] c = "12ab" -> 4
      [] c \in Codes -> 6
      [] c = "Asha" -> 4
      [] c = "secret1" -> 7
      [] c = "hunter22" -> 8
      [] c = "Head@1234" -> 9
      [] c = "Admin@123" -> 9
      [] OTHER -> 6
len(t) == t.lead + CoreLength(t.core) + t.trail
isdigit(t) == t.lead = 0 /\ t.trail = 0 /\ t.core \in Codes

\* hashlib.sha256(x.encode()).hexdigest(): one-way, free of collisions
sha256(x) == [sha256 |-> x]
hash_otp(otp) == sha256(otp)
verify_otp_hash(otp, otp_hash) == sha256(otp) = otp_hash

\* registration tokens: the payload of the signed JWT
NoToken == [type |-> "none", name |-> Text(""), email |-> Email(""),
            password_hash |-> generate_password_hash(Text("")), otp_hash |-> sha256(""),
            expires_at |-> 0, exp |-> 0]
ForgedToken == [NoToken EXCEPT !.type = "forged"]
_create_registration_token(name, email, password_hash, otp_hash, expires_at) ==
    [type |-> "pending_registration", name |-> name, email |-> email,
     password_hash |-> password_hash, otp_hash |-> otp_hash, expires_at |-> expires_at,
     exp |-> now + Minutes(OTP_EXPIRY_MINUTES + TOKEN_GRACE_MINUTES)]
\* a decode that trusts the signature only while the store holds the row
_decode_registration_token_stored(token) ==
    /\ token \in tokens /\ token.type = "pending_registration" /\ now < token.exp
    /\ \E r \in registration_otp : r.email = token.email
\* pyjwt.decode: the signature must be ours and exp must lie in the future
_decode_registration_token(token) ==
    token \in tokens /\ token.type = "pending_registration" /\ now < token.exp
TokenInputs == tokens \cup {NoToken, ForgedToken}

\* The response of the handler that ran last, while the state it left stands
NoResponse == [op |-> "none", email |-> Email(""), otp |-> "", token |-> NoToken,
               vtoken |-> "", password |-> Text(""), status |-> 0, outcome |-> "",
               retry_after |-> 0, issued |-> "", logged |-> "", path |-> "",
               prev_hash |-> generate_password_hash(Text(""))]

Response(op, email, status, outcome) ==
    [NoResponse EXCEPT !.op = op, !.email = email, !.status = status, !.outcome = outcome]

IdleWorker == [pc |-> "idle", email |-> Email(""), vtoken |-> "", password |-> Text(""),
               user_id |-> NULL, status |-> 0]
Workers == {1, 2}

\* ---- check_rate_limit -------------------------------------------------
\* fetchone() found no row
NoRecord == [id |-> NULL, email |-> Email(""), request_count |-> 0, window_start |-> 0]
RateRecords(email) == { r \in otp_rate_limit : r.email = email }

\* window_elapsed >= OTP_RATE_LIMIT_WINDOW
WindowElapsed(record) == now - record.window_start >= Minutes(OTP_RATE_LIMIT_WINDOW)

\* a limit test that lets one more request through
LimitExceeded(record) == record.request_count > OTP_RATE_LIMIT_MAX
\* record['request_count'] >= OTP_RATE_LIMIT_MAX
LimitReached(record) == record.request_count >= OTP_RATE_LIMIT_MAX

\* int(remaining), remaining = OTP_RATE_LIMIT_WINDOW - window_elapsed minutes
retry_after(record) ==
    (Minutes(OTP_RATE_LIMIT_WINDOW) - (now - record.window_start)) \div TicksPerMinute

\* check_rate_limit(email): is the request allowed, the value the caller puts
\* into retry_after, and the table afterwards (committed by the call itself).
\* record is the row its SELECT fetched; the UPDATEs name the row by its id.
check_rate_limit(email, record) ==
    IF record = NoRecord
    THEN [allowed |-> TRUE, retry_after |-> 0,
          table |-> otp_rate_limit \cup {[id |-> seq.otp_rate_limit, email |-> email,
                                          request_count |-> 1, window_start |-> now]},
          inserted |-> 1]
    ELSE IF WindowElapsed(record)
    THEN [allowed |-> TRUE, retry_after |-> 0,
          table |-> { IF r.id = record.id
                      THEN [r EXCEPT !.request_count = 1, !.window_start = now] ELSE r
                      : r \in otp_rate_limit },
          inserted |-> 0]
    ELSE IF LimitReached(record)
    THEN [allowed |-> FALSE, retry_after |-> retry_after(record),
          table |-> otp_rate_limit, inserted |-> 0]
    ELSE [allowed |-> TRUE, retry_after |-> 0,
          table |-> { IF r.id = record.id THEN [r EXCEPT !.request_count = @ + 1] ELSE r
                      : r \in otp_rate_limit },
          inserted |-> 0]

\* cursor.fetchone() of the rate-limit query: a row of the e-mail, or NULL
RateRecordChoices(email) ==
    IF RateRecords(email) = {} THEN {NoRecord} ELSE RateRecords(email)

\* generate_secure_otp() and its delivery: the codes sent for a flow and an
\* e-mail address, the one sent last marked with the time it was sent
CodesIssued == seq.codes
Issue(flow, email, otp) ==
    { IF m.flow = flow /\ m.email = email THEN [m EXCEPT !.latest = FALSE, !.at = 0] ELSE m
      : m \in mailbox }
    \cup {[flow |-> flow, email |-> email, code |-> otp, latest |-> TRUE, at |-> now,
            verified |-> FALSE]}
\* a verify call has succeeded with the code
Verified(flow, email, otp) ==
    { IF m.flow = flow /\ m.email = email /\ m.code = otp
      THEN [m EXCEPT !.verified = TRUE] ELSE m : m \in mailbox }

UsersByEmail(email) == { u \in users : u.email = email }

\* an expiry test that grants the grace period of the token's exp
IsExpiredAfterGrace(expires_at) == now > expires_at + Minutes(TOKEN_GRACE_MINUTES)
\* datetime.now() > expires_at
IsExpired(expires_at) == now > expires_at

\* the outcomes of handing a code to the e-mail service: without credentials
\* it sends nothing and the handler takes the outcome its branch fixes
Delivery(dev_outcome) == IF development_mode THEN {dev_outcome} ELSE BOOLEAN
\* what the development branches write to the console and the log
Console(otp) == IF development_mode THEN otp ELSE ""

\* ---- POST /register-request -------------------------------------------
\* The database is taken to work: the except branches that log a failed
\* INSERT and the 500 answers are left out.
register_request ==
    \E name_in \in Names, email_in \in EmailInputs, password_in \in RegPasswords,
       otp \in Codes, delivered \in Delivery(TRUE) :
    LET name == strip(name_in)
        email == lower(strip(email_in))
        password == strip(password_in)
        R(status, outcome) == Response("register_request", email, status, outcome)
    IN
    \E record \in RateRecordChoices(email) :
    LET rl == check_rate_limit(email, record)
        otp_hashed == hash_otp(otp)
        password_hashed == generate_password_hash(password)
        expires_at == now + Minutes(OTP_EXPIRY_MINUTES)
        row == [id |-> seq.registration_otp, name |-> name, email |-> email,
                password_hash |-> password_hashed, otp_hash |-> otp_hashed,
                expires_at |-> expires_at]
        registration_token ==
            _create_registration_token(name, email, password_hashed, otp_hashed, expires_at)
    IN
    IF len(name) < MIN_NAME_LENGTH \/ len(password) < MIN_PASSWORD_LENGTH
       \/ len(password) > MAX_PASSWORD_LENGTH
    THEN /\ resp' = R(400, "validation")
         /\ UNCHANGED <<storeVars, resolved, now, registration_otp, password_reset_otp,
                        otp_rate_limit, mailbox, tokens, vtokens, worker>>
    ELSE IF UsersByEmail(email) # {}
    THEN /\ resp' = R(409, "already_registered")
         /\ UNCHANGED <<storeVars, resolved, now, registration_otp, password_reset_otp,
                        otp_rate_limit, mailbox, tokens, vtokens, worker>>
    ELSE IF ~rl.allowed
    THEN /\ resp' = [R(429, "rate_limited") EXCEPT !.retry_after = rl.retry_after]
         /\ UNCHANGED <<storeVars, resolved, now, registration_otp, password_reset_otp,
                        otp_rate_limit, mailbox, tokens, vtokens, worker>>
    ELSE /\ otp_rate_limit' = rl.table
         /\ registration_otp' = { r \in registration_otp : r.email # email } \cup {row}
         /\ seq' = [seq EXCEPT !.otp_rate_limit = @ + rl.inserted,
                               !.registration_otp = @ + 1,
                               !.codes = @ + 1]
         /\ mailbox' = Issue("registration", email, otp)
         /\ tokens' = tokens \cup {registration_token}
         /\ resp' = [R(IF delivered THEN 200 ELSE 400,
                       IF delivered THEN "ok" ELSE "delivery_failed")
                       EXCEPT !.issued = otp, !.token = registration_token,
                              !.logged = otp]
         /\ UNCHANGED <<envVars, complaintVars, users, routes, buses, admin_assignments, resolved,
                        now, password_reset_otp, vtokens, worker>>

\* ---- POST /register-verify --------------------------------------------
\* a verify call that spends the pending record on a wrong code
WrongCodeBurns(rows, record) == { r \in rows : r.id # record.id }
\* the hash-mismatch branch of the verify calls closes the cursor and the
\* connection and returns: the rows stay as they are
WrongCodeLeaves(rows, record) == rows

\* a pending record that drops the password hash the token carries
TokenPendingNoHash(token) ==
    [id |-> NULL, name |-> token.name, email |-> token.email,
     password_hash |-> NoToken.password_hash, otp_hash |-> token.otp_hash,
     expires_at |-> token.expires_at]
\* the pending record a registration token stands for
TokenPending(token) ==
    [id |-> NULL, name |-> token.name, email |-> token.email,
     password_hash |-> token.password_hash, otp_hash |-> token.otp_hash,
     expires_at |-> token.expires_at]

register_verify ==
    \E email_in \in EmailInputs, otp_in \in OtpInputs, registration_token \in TokenInputs :
    LET email == lower(strip(email_in))
        otp == strip(otp_in)
        token_payload == registration_token.type # "none"
                         /\ _decode_registration_token(registration_token)
        token_ok == token_payload /\ registration_token.email = email
        rows == { r \in registration_otp : r.email = email }
        R(status, outcome) ==
            [Response("register_verify", email, status, outcome)
                EXCEPT !.otp = otp.core,
                       !.token = registration_token,
                       !.path = IF token_ok THEN "token"
                                ELSE IF rows # {} THEN "db" ELSE "none"]
    IN
    IF ~isdigit(otp) \/ len(otp) # OTP_LENGTH
    THEN /\ resp' = [R(400, "invalid_format") EXCEPT !.path = ""]
         /\ UNCHANGED <<storeVars, resolved, now, registration_otp, password_reset_otp,
                        otp_rate_limit, mailbox, tokens, vtokens, worker>>
    ELSE IF ~token_ok /\ rows = {}
    THEN /\ resp' = R(400, "not_found")
         /\ UNCHANGED <<storeVars, resolved, now, registration_otp, password_reset_otp,
                        otp_rate_limit, mailbox, tokens, vtokens, worker>>
    ELSE
    \E pending \in (IF token_ok THEN {TokenPending(registration_token)} ELSE rows) :
    LET pending_id == pending.id
        without_pending == { r \in registration_otp : r.id # pending_id }
    IN
    IF ~verify_otp_hash(otp.core, pending.otp_hash)
    THEN /\ resp' = R(400, "invalid_code")
         /\ registration_otp' = WrongCodeLeaves(registration_otp, pending)
         /\ UNCHANGED <<storeVars, resolved, now, password_reset_otp,
                        otp_rate_limit, mailbox, tokens, vtokens, worker>>
    ELSE IF IsExpired(pending.expires_at)
    THEN /\ resp' = R(400, "expired")
         /\ registration_otp' = without_pending
         /\ UNCHANGED <<storeVars, resolved, now, password_reset_otp,
                        otp_rate_limit, mailbox, tokens, vtokens, worker>>
    ELSE IF UsersByEmail(email) # {}
    THEN /\ resp' = R(409, "already_registered")
         /\ registration_otp' = without_pending
         /\ UNCHANGED <<storeVars, resolved, now, password_reset_otp,
                        otp_rate_limit, mailbox, tokens, vtokens, worker>>
    ELSE /\ users' = users \cup {[id |-> seq.users, name |-> pending.name.core,
                                  email |-> pending.email,
                                  password_hash |-> pending.password_hash,
                                  role |-> "user", is_active |-> TRUE]}
         /\ seq' = [seq EXCEPT !.users = @ + 1]
         /\ registration_otp' =
                IF pending_id # NULL THEN without_pending
                ELSE { r \in registration_otp : r.email # email }
         /\ otp_rate_limit' = { r \in otp_rate_limit : r.email # email }
         /\ mailbox' = Verified("registration", email, otp.core)
         /\ resp' = R(201, "ok")
         /\ resolved' = NoCall
         /\ UNCHANGED <<envVars, complaintVars, routes, buses, admin_assignments, now,
                        password_reset_otp, tokens, vtokens, worker>>

\* ---- POST /register-resend --------------------------------------------
register_resend ==
    \E email_in \in EmailInputs, registration_token \in TokenInputs,
       otp \in Codes, delivered \in Delivery(FALSE) :
    LET email == lower(strip(email_in))
        R(status, outcome) == Response("register_resend", email, status, outcome)
        token_ok == /\ registration_token.type # "none"
                    /\ _decode_registration_token(registration_token)
                    /\ registration_token.email = email
        rows == { r \in registration_otp : r.email = email }
    IN
    IF ~token_ok /\ rows = {}
    THEN /\ resp' = R(400, "not_found")
         /\ UNCHANGED <<storeVars, resolved, now, registration_otp, password_reset_otp,
                        otp_rate_limit, mailbox, tokens, vtokens, worker>>
    ELSE
    \E row \in (IF token_ok THEN {TokenPending(registration_token)} ELSE rows),
       record \in RateRecordChoices(email) :
    LET reg_name == row.name
        reg_password_hash == row.password_hash
        pending_id == row.id
        rl == check_rate_limit(email, record)
        otp_hashed == hash_otp(otp)
        expires_at == now + Minutes(OTP_EXPIRY_MINUTES)
        new_registration_token ==
            _create_registration_token(reg_name, email, reg_password_hash, otp_hashed,
                                       expires_at)
    IN
    IF ~rl.allowed
    THEN /\ resp' = [R(429, "rate_limited") EXCEPT !.retry_after = rl.retry_after]
         /\ UNCHANGED <<storeVars, resolved, now, registration_otp, password_reset_otp,
                        otp_rate_limit, mailbox, tokens, vtokens, worker>>
    ELSE /\ otp_rate_limit' = rl.table
         /\ registration_otp' =
                IF pending_id # NULL
                THEN (registration_otp \ {row}) \cup
                     {[row EXCEPT !.otp_hash = otp_hashed, !.expires_at = expires_at]}
                ELSE { r \in registration_otp : r.email # email } \cup
                     {[id |-> seq.registration_otp, name |-> reg_name, email |-> email,
                       password_hash |-> reg_password_hash, otp_hash |-> otp_hashed,
                       expires_at |-> expires_at]}
         /\ seq' = [seq EXCEPT !.otp_rate_limit = @ + rl.inserted,
                               !.registration_otp =
                                   @ + (IF pending_id = NULL THEN 1 ELSE 0),
                               !.codes = @ + 1]
         /\ mailbox' = Issue("registration", email, otp)
         /\ tokens' = tokens \cup {new_registration_token}
         /\ resp' = [R(IF delivered THEN 200 ELSE 400,
                       IF delivered THEN "ok" ELSE "delivery_failed")
                       EXCEPT !.issued = otp, !.token = new_registration_token,
                              !.logged = Console(otp)]
         /\ UNCHANGED <<envVars, complaintVars, users, routes, buses, admin_assignments, resolved,
                        now, password_reset_otp, vtokens, worker>>

\* ---- POST /request-otp ------------------------------------------------
request_otp ==
    \E email_in \in ResetEmailInputs, otp \in Codes, delivered \in Delivery(FALSE) :
    LET email == lower(strip(email_in))
        R(status, outcome) == Response("request_otp", email, status, outcome)
    IN
    IF UsersByEmail(email) = {}
    THEN /\ resp' = R(200, "generic")
         /\ UNCHANGED <<storeVars, resolved, now, registration_otp, password_reset_otp,
                        otp_rate_limit, mailbox, tokens, vtokens, worker>>
    ELSE
    \E user \in UsersByEmail(email), record \in RateRecordChoices(email) :
    LET rl == check_rate_limit(email, record)
        otp_hashed == hash_otp(otp)
        expires_at == now + Minutes(OTP_EXPIRY_MINUTES)
    IN
    IF ~user.is_active
    THEN /\ resp' = R(403, "deactivated")
         /\ UNCHANGED <<storeVars, resolved, now, registration_otp, password_reset_otp,
                        otp_rate_limit, mailbox, tokens, vtokens, worker>>
    ELSE IF ~rl.allowed
    THEN /\ resp' = [R(429, "rate_limited") EXCEPT !.retry_after = rl.retry_after]
         /\ UNCHANGED <<storeVars, resolved, now, registration_otp, password_reset_otp,
                        otp_rate_limit, mailbox, tokens, vtokens, worker>>
    ELSE /\ otp_rate_limit' = rl.table
         /\ password_reset_otp' =
                { IF r.email = email /\ ~r.used THEN [r EXCEPT !.used = TRUE] ELSE r
                  : r \in password_reset_otp }
                \cup {[id |-> seq.password_reset_otp, email |-> email,
                       otp_hash |-> otp_hashed, expires_at |-> expires_at,
                       used |-> FALSE, created_at |-> now]}
         /\ seq' = [seq EXCEPT !.otp_rate_limit = @ + rl.inserted,
                               !.password_reset_otp = @ + 1,
                               !.codes = @ + 1]
         /\ mailbox' = Issue("password_reset", email, otp)
         /\ resp' = [R(IF delivered THEN 200 ELSE 400,
                       IF delivered THEN "ok" ELSE "delivery_failed")
                       EXCEPT !.issued = otp, !.logged = Console(otp)]
         /\ UNCHANGED <<envVars, complaintVars, users, routes, buses, admin_assignments, resolved,
                        now, registration_otp, tokens, vtokens, worker>>

\* ORDER BY created_at DESC LIMIT 1 over a set of rows
LatestRows(rows) == { r \in rows : \A o \in rows : o.created_at <= r.created_at }

\* ---- POST /verify-otp -------------------------------------------------
verify_otp ==
    \E email_in \in ResetEmailInputs, otp_in \in OtpInputs :
    LET email == lower(strip(email_in))
        otp == strip(otp_in)
        rows == LatestRows({ r \in password_reset_otp : r.email = email /\ ~r.used })
        R(status, outcome) ==
            [Response("verify_otp", email, status, outcome)
                EXCEPT !.otp = otp.core, !.path = IF rows # {} THEN "db" ELSE "none"]
    IN
    IF ~isdigit(otp) \/ len(otp) # OTP_LENGTH
    THEN /\ resp' = [R(400, "invalid_format") EXCEPT !.path = ""]
         /\ UNCHANGED <<storeVars, resolved, now, registration_otp, password_reset_otp,
                        otp_rate_limit, mailbox, tokens, vtokens, worker>>
    ELSE IF rows = {}
    THEN /\ resp' = R(400, "not_found")
         /\ UNCHANGED <<storeVars, resolved, now, registration_otp, password_reset_otp,
                        otp_rate_limit, mailbox, tokens, vtokens, worker>>
    ELSE
    \E otp_record \in rows :
    LET verification_token == VTokenNames[seq.vtoken]
        verification_hash == sha256(verification_token)
    IN
    IF ~verify_otp_hash(otp.core, otp_record.otp_hash)
    THEN /\ resp' = R(400, "invalid_code")
         /\ password_reset_otp' = WrongCodeLeaves(password_reset_otp, otp_record)
         /\ UNCHANGED <<storeVars, resolved, now, registration_otp,
                        otp_rate_limit, mailbox, tokens, vtokens, worker>>
    ELSE IF IsExpired(otp_record.expires_at)
    THEN /\ password_reset_otp' = (password_reset_otp \ {otp_record})
                                  \cup {[otp_record EXCEPT !.used = TRUE]}
         /\ resp' = R(400, "expired")
         /\ UNCHANGED <<storeVars, resolved, now, registration_otp,
                        otp_rate_limit, mailbox, tokens, vtokens, worker>>
    ELSE /\ password_reset_otp' = (password_reset_otp \ {otp_record})
                                  \cup {[otp_record EXCEPT !.otp_hash = verification_hash]}
         /\ seq' = [seq EXCEPT !.vtoken = @ + 1]
         /\ vtokens' = vtokens \cup {[email |-> email, token |-> verification_token]}
         /\ mailbox' = Verified("password_reset", email, otp.core)
         /\ resp' = [R(200, "ok") EXCEPT !.vtoken = verification_token]
         /\ UNCHANGED <<envVars, complaintVars, users, routes, buses, admin_assignments, resolved,
                        now, registration_otp, otp_rate_limit, tokens, worker>>

\* ---- POST /reset-password ---------------------------------------------
VTokenInputs ==
    {Text(c) : c \in Codes} \cup {Text(VTokenNames[i]) : i \in 1..(seq.vtoken - 1)}

\* the SELECT of reset_password: unused, unexpired rows of the e-mail whose
\* otp_hash is the hash of the value presented
SessionRows(email, verification_token) ==
    LatestRows({ r \in password_reset_otp :
                   /\ r.email = email
                   /\ r.otp_hash = sha256(verification_token)
                   /\ ~r.used
                   /\ r.expires_at > now })

\* the UPDATE and the two DELETEs of reset_password
UsersAfterReset(user_id, new_password) ==
    { IF u.id = user_id
      THEN [u EXCEPT !.password_hash = generate_password_hash(new_password)] ELSE u
      : u \in users }
OtpRowsAfterReset(email) == { r \in password_reset_otp : r.email # email }
RateRowsAfterReset(email) == { r \in otp_rate_limit : r.email # email }

reset_password ==
    \E email_in \in ResetEmailInputs, token_in \in VTokenInputs, password_in \in Passwords :
    LET email == lower(strip(email_in))
        verification_token == strip(token_in).core
        new_password == strip(password_in)
        R(status, outcome) == Response("reset_password", email, status, outcome)
    IN
    IF len(new_password) < MIN_PASSWORD_LENGTH \/ len(new_password) > MAX_PASSWORD_LENGTH
    THEN /\ resp' = R(400, "validation")
         /\ UNCHANGED <<storeVars, resolved, now, registration_otp, password_reset_otp,
                        otp_rate_limit, mailbox, tokens, vtokens, worker>>
    ELSE IF SessionRows(email, verification_token) = {}
    THEN /\ resp' = R(400, "invalid_session")
         /\ UNCHANGED <<storeVars, resolved, now, registration_otp, password_reset_otp,
                        otp_rate_limit, mailbox, tokens, vtokens, worker>>
    ELSE IF UsersByEmail(email) = {}
    THEN /\ resp' = R(404, "user_not_found")
         /\ UNCHANGED <<storeVars, resolved, now, registration_otp, password_reset_otp,
                        otp_rate_limit, mailbox, tokens, vtokens, worker>>
    ELSE
    \E user \in UsersByEmail(email) :
         /\ users' = UsersAfterReset(user.id, new_password)
         /\ password_reset_otp' = OtpRowsAfterReset(email)
         /\ otp_rate_limit' = RateRowsAfterReset(email)
         /\ resp' = [R(200, "ok") EXCEPT !.vtoken = verification_token,
                                          !.password = password_in,
                                          !.prev_hash = user.password_hash]
         /\ resolved' = NoCall
         /\ UNCHANGED <<envVars, complaintVars, routes, buses, admin_assignments, seq, now,
                        registration_otp, mailbox, tokens, vtokens, worker>>

\* ---- reset_password, statement by statement ----------------------------
\* One request served by worker w: the two SELECTs see the committed rows,
\* the UPDATE and the DELETEs are committed together later.
reset_password_select(w) ==
    \E email_in \in ResetEmailInputs, token_in \in VTokenInputs, password_in \in Passwords :
    LET email == lower(strip(email_in))
        verification_token == strip(token_in).core
        new_password == strip(password_in)
        Rejected(status) == [IdleWorker EXCEPT !.pc = "done", !.status = status]
    IN
    /\ worker[w].pc = "idle"
    /\ worker' =
         [worker EXCEPT ![w] =
            IF len(new_password) < MIN_PASSWORD_LENGTH
               \/ len(new_password) > MAX_PASSWORD_LENGTH
               \/ SessionRows(email, verification_token) = {}
            THEN Rejected(400)
            ELSE IF UsersByEmail(email) = {}
            THEN Rejected(404)
            ELSE [pc |-> "selected", email |-> email, vtoken |-> verification_token,
                  password |-> new_password, status |-> 0,
                  user_id |-> (CHOOSE u \in UsersByEmail(email) : TRUE).id]]
    /\ UNCHANGED <<storeVars, resolved, now, registration_otp, password_reset_otp,
                   otp_rate_limit, mailbox, tokens, vtokens, resp>>

reset_password_commit(w) ==
    /\ worker[w].pc = "selected"
    /\ users' = UsersAfterReset(worker[w].user_id, worker[w].password)
    /\ password_reset_otp' = OtpRowsAfterReset(worker[w].email)
    /\ otp_rate_limit' = RateRowsAfterReset(worker[w].email)
    /\ worker' = [worker EXCEPT ![w].pc = "done", ![w].status = 200]
    /\ resp' = NoResponse
    /\ resolved' = NoCall
    /\ UNCHANGED <<envVars, complaintVars, routes, buses, admin_assignments, seq, now,
                   registration_otp, mailbox, tokens, vtokens>>

\* ---- register_verify, statement by statement ----------------------------
\* One request served by worker w that passes every check: the SELECTs up to
\* "SELECT id FROM users WHERE email = ?" see the committed rows; the INSERT,
\* the DELETEs and conn.commit() follow later.  (A request that ends before
\* its INSERT is register_verify itself.)
register_verify_select(w) ==
    \E email_in \in EmailInputs, otp_in \in OtpInputs, registration_token \in TokenInputs :
    LET email == lower(strip(email_in))
        otp == strip(otp_in)
        token_ok == /\ registration_token.type # "none"
                    /\ _decode_registration_token(registration_token)
                    /\ registration_token.email = email
        rows == { r \in registration_otp : r.email = email }
    IN
    /\ worker[w].pc = "idle"
    /\ isdigit(otp) /\ len(otp) = OTP_LENGTH
    /\ \E pending \in (IF token_ok THEN {TokenPending(registration_token)} ELSE rows) :
          /\ verify_otp_hash(otp.core, pending.otp_hash)
          /\ ~IsExpired(pending.expires_at)
          /\ UsersByEmail(email) = {}
          /\ worker' = [worker EXCEPT ![w] = [pc |-> "verified", email |-> email,
                                              otp |-> otp.core, pending |-> pending]]
    /\ UNCHANGED <<storeVars, resolved, now, registration_otp, password_reset_otp,
                   otp_rate_limit, mailbox, tokens, vtokens, resp>>

\* users.email is declared UNIQUE: the INSERT of a second row with the value
\* raises, the handler answers 500 and its transaction is dropped
EmailTaken(email) == \E u \in users : u.email = email

register_verify_insert(w) ==
    LET t == worker[w]
        Answered(status) == [IdleWorker EXCEPT !.pc = "done", !.status = status]
    IN
    /\ t.pc = "verified"
    /\ IF EmailTaken(t.pending.email)
       THEN /\ worker' = [worker EXCEPT ![w] = Answered(500)]
            /\ UNCHANGED <<users, seq, registration_otp, otp_rate_limit, mailbox, resolved>>
       ELSE /\ users' = users \cup {[id |-> seq.users, name |-> t.pending.name.core,
                                     email |-> t.pending.email,
                                     password_hash |-> t.pending.password_hash,
                                     role |-> "user", is_active |-> TRUE]}
            /\ seq' = [seq EXCEPT !.users = @ + 1]
            /\ registration_otp' =
                   IF t.pending.id # NULL
                   THEN { r \in registration_otp : r.id # t.pending.id }
                   ELSE { r \in registration_otp : r.email # t.email }
            /\ otp_rate_limit' = { r \in otp_rate_limit : r.email # t.email }
            /\ mailbox' = Verified("registration", t.email, t.otp)
            /\ worker' = [worker EXCEPT ![w] = Answered(201)]
            /\ resolved' = NoCall
    /\ resp' = NoResponse
    /\ UNCHANGED <<envVars, complaintVars, routes, buses, admin_assignments, now,
                   password_reset_otp, tokens, vtokens>>

\* ---- request_otp, statement by statement --------------------------------
\* One request served by worker w.  check_rate_limit reads the rate record,
\* then writes and commits it on a connection of its own; the handler then
\* opens a second connection, whose UPDATE and INSERT are committed together.

\* the SELECT of the user and the SELECT of check_rate_limit
request_otp_select(w) ==
    \E email_in \in ResetEmailInputs :
    LET email == lower(strip(email_in))
        Answered(status) == [IdleWorker EXCEPT !.pc = "done", !.status = status]
    IN
    /\ worker[w].pc = "idle"
    /\ worker' =
         [worker EXCEPT ![w] =
            IF UsersByEmail(email) = {} THEN Answered(200)
            ELSE IF \E u \in UsersByEmail(email) : ~u.is_active THEN Answered(403)
            ELSE [pc |-> "counted", email |-> email,
                  record |-> CHOOSE r \in RateRecordChoices(email) : TRUE]]
    /\ UNCHANGED <<storeVars, resolved, now, registration_otp, password_reset_otp,
                   otp_rate_limit, mailbox, tokens, vtokens, resp>>

\* SQLite: the UPDATE takes the write lock of the database, which it gets
\* once no other connection holds it.  PostgreSQL: the UPDATE locks the rows
\* it matches and waits for a transaction that has locked one of them.
WriteLockGranted(w) ==
    \A o \in Workers \ {w} :
        worker[o].pc = "invalidated" =>
            /\ DATABASE_URL
            /\ \A r \in password_reset_otp :
                  (r.email = worker[w].email /\ ~r.used) => r.id \notin worker[o].marked

\* a request served without interruption writes once the write lock of the
\* SQLite database is free; PostgreSQL has no such lock
StoreFree == DATABASE_URL \/ \A w \in Workers : worker[w].pc # "invalidated"

\* the write of check_rate_limit with its commit, the new code, and the
\* UPDATE that invalidates the earlier codes of the address
request_otp_invalidate(w) ==
    \E otp \in Codes :
    LET t == worker[w]
        rl == check_rate_limit(t.email, t.record)
    IN
    /\ t.pc = "counted"
    /\ IF ~rl.allowed
       THEN /\ worker' = [worker EXCEPT ![w] = [IdleWorker EXCEPT !.pc = "done",
                                                                  !.status = 429]]
            /\ UNCHANGED <<otp_rate_limit, seq>>
       ELSE /\ WriteLockGranted(w)
            /\ otp_rate_limit' = rl.table
            /\ seq' = [seq EXCEPT !.otp_rate_limit = @ + rl.inserted, !.codes = @ + 1]
            /\ worker' =
                 [worker EXCEPT ![w] =
                    [pc |-> "invalidated", email |-> t.email, otp |-> otp,
                     expires_at |-> now + Minutes(OTP_EXPIRY_MINUTES),
                     marked |-> { r.id : r \in { x \in password_reset_otp :
                                                   x.email = t.email /\ ~x.used } }]]
    /\ UNCHANGED <<envVars, complaintVars, users, routes, buses, admin_assignments,
                   resolved, now, registration_otp, password_reset_otp, mailbox, tokens,
                   vtokens, resp>>

\* the INSERT of the new code and conn.commit()
request_otp_commit(w) ==
    LET t == worker[w] IN
    /\ t.pc = "invalidated"
    /\ password_reset_otp' =
           { IF r.id \in t.marked THEN [r EXCEPT !.used = TRUE] ELSE r
             : r \in password_reset_otp }
           \cup {[id |-> seq.password_reset_otp, email |-> t.email,
                  otp_hash |-> hash_otp(t.otp), expires_at |-> t.expires_at,
                  used |-> FALSE, created_at |-> now]}
    /\ seq' = [seq EXCEPT !.password_reset_otp = @ + 1]
    /\ mailbox' = Issue("password_reset", t.email, t.otp)
    /\ worker' = [worker EXCEPT ![w] = [IdleWorker EXCEPT !.pc = "done", !.status = 200]]
    /\ resp' = NoResponse
    /\ UNCHANGED <<envVars, complaintVars, users, routes, buses, admin_assignments,
                   resolved, now, registration_otp, otp_rate_limit, tokens, vtokens>>

\* ---- update_admin_routes, statement by statement -----------------------
\* One request served by worker w.  The DELETE opens the transaction and
\* takes the write lock of the database; the INSERTs follow one by one; the
\* single conn.commit() makes all of it visible to the other connections.

\* a connection that commits after every statement
PublishedAtOnce(committed, work, is_commit) == work
\* the rows the other connections see after a statement of the transaction
Published(committed, work, is_commit) == IF is_commit THEN work ELSE committed

WriteLockFree == \A w \in Workers : worker[w].pc # "replacing"
\* the write lock admits one replacement at a time: one worker serves them
Replacers == { CHOOSE w \in Workers : TRUE }

\* DELETE FROM admin_assignments without its WHERE clause
RowsOfAnyAdmin(rows, admin_id) == rows
\* the rows DELETE FROM admin_assignments WHERE admin_id = ? removes
RowsOfAdmin(rows, admin_id) == { a \in rows : a.admin_id = admin_id }

update_admin_routes_delete(w) ==
    \E admin \in users, route_ids \in RouteIdLists :
    LET old == RowsOfAdmin(admin_assignments, admin.id)
        work == admin_assignments \ old
    IN  /\ worker[w].pc \in {"idle", "replaced"}
        /\ WriteLockFree
        /\ admin.role = "admin"
        /\ RoutesValid(route_ids)
        /\ worker' = [worker EXCEPT ![w] =
                        [pc |-> "replacing", admin_id |-> admin.id, route_ids |-> route_ids,
                         i |-> 1, old |-> old, work |-> work]]
        /\ admin_assignments' = Published(admin_assignments, work, FALSE)
        /\ resolved' = IF admin_assignments' = admin_assignments THEN resolved ELSE NoCall
        /\ UNCHANGED <<envVars, complaintVars, users, routes, buses, seq, now,
                       registration_otp, password_reset_otp, otp_rate_limit, mailbox,
                       tokens, vtokens, resp>>

update_admin_routes_insert(w) ==
    LET t == worker[w] IN
    /\ t.pc = "replacing"
    /\ t.i <= Len(t.route_ids)
    /\ LET route_info == { r \in routes : r.id = t.route_ids[t.i] }
           route_district_id == IF route_info = {} THEN NULL
                                ELSE (CHOOSE r \in route_info : TRUE).district_id
           priority == priority_levels[Min(t.i - 1, Len(priority_levels) - 1) + 1]
           work == t.work \cup {[admin_id |-> t.admin_id, route_id |-> t.route_ids[t.i],
                                 district_id |-> route_district_id, priority |-> priority]}
       IN /\ worker' = [worker EXCEPT ![w].i = t.i + 1, ![w].work = work]
          /\ admin_assignments' = Published(admin_assignments, work, FALSE)
    /\ resolved' = IF admin_assignments' = admin_assignments THEN resolved ELSE NoCall
    /\ UNCHANGED <<envVars, complaintVars, users, routes, buses, seq, now,
                   registration_otp, password_reset_otp, otp_rate_limit, mailbox,
                   tokens, vtokens, resp>>

update_admin_routes_commit(w) ==
    LET t == worker[w] IN
    /\ t.pc = "replacing"
    /\ t.i > Len(t.route_ids)
    /\ admin_assignments' = Published(admin_assignments, t.work, TRUE)
    /\ worker' = [worker EXCEPT ![w] = [pc |-> "replaced", admin_id |-> t.admin_id]]
    /\ resolved' = NoCall
    /\ UNCHANGED <<envVars, complaintVars, users, routes, buses, seq, now,
                   registration_otp, password_reset_otp, otp_rate_limit, mailbox,
                   tokens, vtokens, resp>>

\* ---- DELETE /users/<id> (routes/head.py) -------------------------------
delete_user ==
    \E user \in users :
        /\ user.role \notin {"admin", "head"}
        /\ users' = users \ {user}
        /\ resp' = NoResponse
        /\ resolved' = NoCall
        /\ UNCHANGED <<envVars, complaintVars, routes, buses, admin_assignments, seq, now,
                       registration_otp, password_reset_otp, otp_rate_limit, mailbox,
                       tokens, vtokens, worker>>

\* ---- POST /register: create_user (auth/utils.py) -----------------------
\* the legacy direct registration: the e-mail and the password go into the
\* row as typed
register ==
    \E name_in \in Names, email_in \in EmailInputs, password_in \in RegPasswords :
    IF \E u \in users : u.email = email_in
    THEN /\ resp' = Response("register", email_in, 400, "already_registered")
         /\ UNCHANGED <<storeVars, resolved, now, registration_otp, password_reset_otp,
                        otp_rate_limit, mailbox, tokens, vtokens, worker>>
    ELSE /\ users' = users \cup {[id |-> seq.users, name |-> name_in.core,
                                  email |-> email_in,
                                  password_hash |-> generate_password_hash(password_in),
                                  role |-> "user", is_active |-> TRUE]}
         /\ seq' = [seq EXCEPT !.users = @ + 1]
         /\ resp' = Response("register", email_in, 201, "ok")
         /\ resolved' = NoCall
         /\ UNCHANGED <<envVars, complaintVars, routes, buses, admin_assignments, now,
                        registration_otp, password_reset_otp, otp_rate_limit, mailbox,
                        tokens, vtokens, worker>>

\* ---- authenticate_user (auth/utils.py) ---------------------------------
authenticate_user(email, password) ==
    LET found == { u \in users : u.email = email /\ u.is_active } IN
    IF found = {} THEN NULL
    ELSE LET user == CHOOSE u \in found : TRUE IN
         IF check_password_hash(user.password_hash, password) THEN user.id ELSE NULL

\* ---- POST /change-password (routes/auth.py) -----------------------------
\* a check of the current password that accepts anything
CurrentPasswordAny(user, current_password) == TRUE
\* authenticate_user(user['email'], current_password)
CurrentPasswordOk(user, current_password) ==
    authenticate_user(user.email, current_password) # NULL

\* require_user_auth(): the request carries the session token of an active user
change_password ==
    \E user \in { u \in users : u.is_active },
       current_in \in Passwords \cup RegPasswords, password_in \in Passwords :
    LET current_password == strip(current_in)
        new_password == strip(password_in)
        R(status, outcome) == Response("change_password", user.email, status, outcome)
    IN
    IF len(new_password) < MIN_PASSWORD_LENGTH
    THEN /\ resp' = R(400, "validation")
         /\ UNCHANGED <<storeVars, resolved, now, registration_otp, password_reset_otp,
                        otp_rate_limit, mailbox, tokens, vtokens, worker>>
    ELSE IF ~CurrentPasswordOk(user, current_password)
    THEN /\ resp' = R(400, "wrong_password")
         /\ UNCHANGED <<storeVars, resolved, now, registration_otp, password_reset_otp,
                        otp_rate_limit, mailbox, tokens, vtokens, worker>>
    ELSE /\ users' = UsersAfterReset(user.id, new_password)
         /\ resp' = [R(200, "ok") EXCEPT !.password = current_password,
                                          !.prev_hash = user.password_hash]
         /\ resolved' = NoCall
         /\ UNCHANGED <<envVars, complaintVars, routes, buses, admin_assignments, seq, now,
                        registration_otp, password_reset_otp, otp_rate_limit, mailbox,
                        tokens, vtokens, worker>>

(***************************************************************************)
(* Complaints                                                              *)
(***************************************************************************)
MaxComplaints == 1
MaxBulk == 1
MaxComplaintAdmins == 1
ComplaintIds == 1..MaxComplaints
UserIds == 1..MaxUserId

\* The request and the response of the complaint handler that ran last
NoRequest == [op |-> "none", role |-> "", user_id |-> NULL, complaint_id |-> NULL,
              status |-> 0, resolver |-> NoResult]
Request(op, user, complaint_id, status) ==
    [NoRequest EXCEPT !.op = op, !.role = user.role, !.user_id = user.id,
                      !.complaint_id = complaint_id, !.status = status]

\* get_user_by_token: WHERE token = ? AND is_active = 1, then require_role
Authenticated(required_roles) == { u \in users : u.is_active /\ u.role \in required_roles }

\* the INSERT of create_complaint violates a constraint of the table: its
\* column list leaves out complaint_type, which the DDL declares NOT NULL
InsertRejected == complaint_type_not_null

\* POST /complaints
create_complaint ==
    \E user \in Authenticated({"user", "admin", "head"}), description \in {"", "late bus"},
       route_number \in RouteInputs \cup {""}, bus_number \in BusNumbers \cup {""},
       fault \in {"none"} \cup StorageFaults :
    \E assignment \in (IF fault = "none"
                       THEN find_admin_for_complaint(route_number, bus_number)
                       ELSE find_admin_for_complaint_on(fault, route_number, bus_number)) :
    LET \* `except Exception as ae` leaves both at None
        assigned_admin_id == IF assignment.found THEN assignment.admin_id ELSE NULL
        assigned_district_id == IF assignment.found THEN assignment.district_id ELSE NULL
        complaint_id == seq.complaints
        R(status) == [Request("create_complaint", user, NULL, status)
                          EXCEPT !.resolver = assignment]
    IN
    IF description = ""
    THEN /\ creq' = Request("create_complaint", user, NULL, 400)
         /\ UNCHANGED <<envVars, users, routes, buses, admin_assignments, seq,
                        complaint_type_not_null, complaints, resolved, otpVars>>
    ELSE IF InsertRejected
    THEN /\ creq' = R(500)
         /\ UNCHANGED <<envVars, users, routes, buses, admin_assignments, seq,
                        complaint_type_not_null, complaints, resolved, otpVars>>
    ELSE /\ complaints' = complaints \cup
                {[id |-> complaint_id, user_id |-> user.id, route |-> route_number,
                  status |-> "pending", assigned_to |-> assigned_admin_id,
                  district_id |-> assigned_district_id, created_at |-> now,
                  admin_response |-> ""]}
         /\ seq' = [seq EXCEPT !.complaints = @ + 1]
         /\ creq' = [R(201) EXCEPT !.complaint_id = complaint_id]
         /\ UNCHANGED <<envVars, users, routes, buses, admin_assignments,
                        complaint_type_not_null, resolved, otpVars>>

\* ---- create_complaint, statement by statement ---------------------------
\* One request with a description served by worker w:
\* find_admin_for_complaint runs on a connection of its own and closes it;
\* the handler then opens its connection, INSERTs the row and commits.
create_complaint_resolve(w) ==
    \E user \in Authenticated({"user", "admin", "head"}),
       route_number \in RouteInputs \cup {""}, bus_number \in BusNumbers \cup {""} :
    \E assignment \in find_admin_for_complaint(route_number, bus_number) :
        /\ worker[w].pc = "idle"
        /\ worker' = [worker EXCEPT ![w] =
                         [pc |-> "assigned", user |-> [id |-> user.id, role |-> user.role],
                          route |-> route_number, assignment |-> assignment]]
        /\ UNCHANGED <<storeVars, resolved, now, registration_otp, password_reset_otp,
                       otp_rate_limit, mailbox, tokens, vtokens, resp>>

create_complaint_insert(w) ==
    LET t == worker[w]
        assigned_admin_id == IF t.assignment.found THEN t.assignment.admin_id ELSE NULL
        assigned_district_id == IF t.assignment.found THEN t.assignment.district_id ELSE NULL
        complaint_id == seq.complaints
        R(status) == [Request("create_complaint", t.user, NULL, status)
                          EXCEPT !.resolver = t.assignment]
        Answered(status) == [IdleWorker EXCEPT !.pc = "done", !.status = status]
    IN
    /\ t.pc = "assigned"
    /\ IF InsertRejected
       THEN /\ creq' = R(500)
            /\ worker' = [worker EXCEPT ![w] = Answered(500)]
            /\ UNCHANGED <<complaints, seq>>
       ELSE /\ complaints' = complaints \cup
                   {[id |-> complaint_id, user_id |-> t.user.id, route |-> t.route,
                     status |-> "pending", assigned_to |-> assigned_admin_id,
                     district_id |-> assigned_district_id, created_at |-> now,
                     admin_response |-> ""]}
            /\ seq' = [seq EXCEPT !.complaints = @ + 1]
            /\ creq' = [R(201) EXCEPT !.complaint_id = complaint_id]
            /\ worker' = [worker EXCEPT ![w] = Answered(201)]
    /\ UNCHANGED <<envVars, users, routes, buses, admin_assignments,
                   complaint_type_not_null, resolved, now, registration_otp,
                   password_reset_otp, otp_rate_limit, mailbox, tokens, vtokens, resp>>

\* the table after UPDATE complaints SET ... WHERE id = complaint_id
ComplaintsUpdated(rows, complaint_id, set_assigned, assigned_to, set_status, status) ==
    { IF c.id = complaint_id
      THEN [c EXCEPT !.assigned_to = IF set_assigned THEN assigned_to ELSE @,
                     !.status = IF set_status THEN status ELSE @]
      ELSE c : c \in rows }

\* the handlers below write complaints and creq only
ComplaintFrame ==
    UNCHANGED <<envVars, users, routes, buses, admin_assignments, seq,
                complaint_type_not_null, resolved, otpVars>>

\* PUT /admin/complaints/<id>/assign: "assign complaint to self"
assign_complaint ==
    \E admin \in Authenticated({"admin", "head"}), complaint_id \in ComplaintIds :
    IF ~\E c \in complaints : c.id = complaint_id
    THEN /\ creq' = Request("assign_complaint", admin, complaint_id, 404)
         /\ UNCHANGED complaints
         /\ ComplaintFrame
    ELSE /\ complaints' = ComplaintsUpdated(complaints, complaint_id, TRUE, admin.id,
                                            TRUE, "in-progress")
         /\ creq' = Request("assign_complaint", admin, complaint_id, 200)
         /\ ComplaintFrame

\* the values the request body can give a key: absent, or present with a value
Field(present, value) == [present |-> present, value |-> value]
AssignedToInputs == {Field(FALSE, NULL)} \cup { Field(TRUE, v) : v \in {NULL} \cup UserIds }
StatusInputs == {Field(FALSE, ""), Field(TRUE, "resolved")}
ResponseInputs == {Field(FALSE, ""), Field(TRUE, "noted")}

\* the table after UPDATE complaints SET admin_response = ? WHERE id = complaint_id
ResponseUpdated(rows, complaint_id, set_response, response) ==
    { IF c.id = complaint_id /\ set_response THEN [c EXCEPT !.admin_response = response]
      ELSE c : c \in rows }

\* PUT /complaints/<id>
update_complaint ==
    \E user \in Authenticated({"user", "admin", "head"}), complaint_id \in ComplaintIds,
       assigned_to \in AssignedToInputs, status \in StatusInputs,
       admin_response \in ResponseInputs :
    LET R(code) == Request("update_complaint", user, complaint_id, code)
        found == { c \in complaints : c.id = complaint_id }
    IN
    IF found = {}
    THEN /\ creq' = R(404)
         /\ UNCHANGED complaints
         /\ ComplaintFrame
    ELSE
    \E complaint \in found :
    LET is_admin == user.role \in {"admin", "head"}
        is_owner == complaint.user_id = user.id
    IN
    IF (is_owner /\ ~is_admin /\ now - complaint.created_at > Minutes(5))
       \/ (~is_admin /\ ~is_owner)
    THEN /\ creq' = R(403)
         /\ UNCHANGED complaints
         /\ ComplaintFrame
    ELSE /\ complaints' =
              ResponseUpdated(
                  ComplaintsUpdated(complaints, complaint_id,
                                    assigned_to.present /\ is_admin, assigned_to.value,
                                    status.present /\ is_admin, status.value),
                  complaint_id, admin_response.present /\ is_admin, admin_response.value)
         /\ creq' = R(200)
         /\ ComplaintFrame

\* user['role'] == 'admin' and complaint['assigned_to'] != user['id']
NotOwnComplaint(user, complaint) ==
    user.role = "admin" /\ complaint.assigned_to # user.id

\* PUT /complaints/<id>/status
update_complaint_status ==
    \E user \in Authenticated({"admin", "head"}), complaint_id \in ComplaintIds,
       new_status \in {"", "resolved", "in-progress"} :
    LET R(code) == Request("update_complaint_status", user, complaint_id, code)
        found == { c \in complaints : c.id = complaint_id }
    IN
    IF new_status \notin {"pending", "in-progress", "resolved", "rejected"}
    THEN /\ creq' = R(400)
         /\ UNCHANGED complaints
         /\ ComplaintFrame
    ELSE IF found = {}
    THEN /\ creq' = R(404)
         /\ UNCHANGED complaints
         /\ ComplaintFrame
    ELSE
    \E complaint \in found :
    IF NotOwnComplaint(user, complaint)
    THEN /\ creq' = R(403)
         /\ UNCHANGED complaints
         /\ ComplaintFrame
    ELSE /\ complaints' = ComplaintsUpdated(complaints, complaint_id, FALSE, NULL,
                                            TRUE, new_status)
         /\ creq' = R(200)
         /\ ComplaintFrame

\* PUT /admin/complaints/<id>/respond
respond_to_complaint ==
    \E admin \in Authenticated({"admin", "head"}), complaint_id \in ComplaintIds,
       response \in {"", "noted"}, status \in {"", "pending", "resolved"} :
    LET R(code) == Request("respond_to_complaint", admin, complaint_id, code) IN
    IF response = ""
    THEN /\ creq' = R(400)
         /\ UNCHANGED complaints
         /\ ComplaintFrame
    ELSE IF ~\E c \in complaints : c.id = complaint_id      \* cursor.rowcount == 0
    THEN /\ creq' = R(404)
         /\ UNCHANGED complaints
         /\ ComplaintFrame
    ELSE /\ complaints' =
              ResponseUpdated(
                  ComplaintsUpdated(complaints, complaint_id, FALSE, NULL,
                                    status \in {"in-progress", "resolved", "rejected"},
                                    status),
                  complaint_id, TRUE, response)
         /\ creq' = R(200)
         /\ ComplaintFrame

\* POST /head/complaints/<id>/assign
assign_complaint_to_admin ==
    \E head \in Authenticated({"head"}), complaint_id \in ComplaintIds,
       admin_id \in {NULL} \cup UserIds :
    LET R(code) == Request("assign_complaint_to_admin", head, complaint_id, code) IN
    IF admin_id = NULL
    THEN /\ creq' = R(400)
         /\ UNCHANGED complaints
         /\ ComplaintFrame
    ELSE IF \/ ~\E c \in complaints : c.id = complaint_id
            \/ ~\E u \in users : u.id = admin_id /\ u.role = "admin" /\ u.is_active
    THEN /\ creq' = R(404)
         /\ UNCHANGED complaints
         /\ ComplaintFrame
    ELSE /\ complaints' = ComplaintsUpdated(complaints, complaint_id, TRUE, admin_id,
                                            FALSE, "")
         /\ creq' = R(200)
         /\ ComplaintFrame

\* POST /head/complaints/<id>/unassign
unassign_complaint ==
    \E head \in Authenticated({"head"}), complaint_id \in ComplaintIds :
    LET R(code) == Request("unassign_complaint", head, complaint_id, code) IN
    IF ~\E c \in complaints : c.id = complaint_id
    THEN /\ creq' = R(404)
         /\ UNCHANGED complaints
         /\ ComplaintFrame
    ELSE /\ complaints' = ComplaintsUpdated(complaints, complaint_id, TRUE, NULL, FALSE, "")
         /\ creq' = R(200)
         /\ ComplaintFrame

\* the assignments array of a bulk request
BulkLists ==
    UNION { [1..n -> [complaint_id : {NULL} \cup ComplaintIds, admin_id : {NULL} \cup UserIds]]
            : n \in 0..MaxBulk }

\* the loop of bulk_assign_complaints from entry i on
RECURSIVE BulkApplied(_, _, _)
BulkApplied(rows, assignments, i) ==
    IF i > Len(assignments) THEN rows
    ELSE LET a == assignments[i] IN
         BulkApplied(IF a.complaint_id # NULL /\ a.admin_id # NULL
                     THEN ComplaintsUpdated(rows, a.complaint_id, TRUE, a.admin_id, FALSE, "")
                     ELSE rows,
                     assignments, i + 1)

\* POST /head/complaints/bulk-assign
bulk_assign_complaints ==
    \E head \in Authenticated({"head"}), assignments \in BulkLists :
    LET R(code) == Request("bulk_assign_complaints", head, NULL, code) IN
    IF assignments = <<>>
    THEN /\ creq' = R(400)
         /\ UNCHANGED complaints
         /\ ComplaintFrame
    ELSE /\ complaints' = BulkApplied(complaints, assignments, 1)
         /\ creq' = R(200)
         /\ ComplaintFrame

\* ---- the clock ---------------------------------------------------------
\* datetime.now() moves on by d ticks; registration tokens whose exp has
\* passed no longer decode and are dropped
Pass(d) ==
    /\ now' = now + d
    /\ tokens' = { t \in tokens : now' < t.exp }
    /\ resp' = NoResponse
    /\ UNCHANGED <<storeVars, resolved, registration_otp, password_reset_otp,
                   otp_rate_limit, mailbox, vtokens, worker>>
Tick == now + 1 <= MaxTime /\ Pass(1)
MinutePasses == now + TicksPerMinute <= Minutes(MaxMinutes) /\ Pass(TicksPerMinute)

(***************************************************************************)
(* Initial state: init_db has created the tables and seeded the head.      *)
(***************************************************************************)
HeadUser == [id |-> HeadId, name |-> "Head Admin", email |-> HeadEmail,
             password_hash |-> generate_password_hash(Text("Head@1234")),
             role |-> "head", is_active |-> TRUE]

\* the tables as init_db leaves them
InitTables ==
    /\ users = {HeadUser}
    /\ routes = {}
    /\ buses = {}
    /\ admin_assignments = {}
    /\ seq = [users |-> HeadId + 1, routes |-> 1, buses |-> 1,
              registration_otp |-> 1, password_reset_otp |-> 1, otp_rate_limit |-> 1,
              vtoken |-> 1, codes |-> 0, complaints |-> 1]
    /\ resolved = NoCall
    /\ now = 0
    /\ registration_otp = {}
    /\ password_reset_otp = {}
    /\ otp_rate_limit = {}
    /\ mailbox = {}
    /\ tokens = {}
    /\ vtokens = {}
    /\ resp = NoResponse
    /\ worker = [w \in Workers |-> IdleWorker]
    /\ complaints = {}
    /\ creq = NoRequest

\* CREATE TABLE IF NOT EXISTS leaves a routes table of an earlier schema as
\* it is; the complaints table is the one the DDL describes
Init ==
    /\ InitTables
    /\ DATABASE_URL = FALSE
    /\ development_mode = FALSE
    /\ routes_has_code \in BOOLEAN
    /\ complaint_type_not_null = TRUE

\* a database whose routes and complaints tables an earlier schema created
InitLegacy ==
    /\ InitTables
    /\ DATABASE_URL = FALSE
    /\ development_mode = FALSE
    /\ routes_has_code = TRUE
    /\ complaint_type_not_null \in BOOLEAN

\* the schema init_db creates: routes has no code column
InitAuth == Init /\ ~routes_has_code

\* a routes table of the earlier schema, with its code column
InitCode == Init /\ routes_has_code

\* the schema init_db creates, with or without e-mail credentials
InitMail ==
    /\ InitTables
    /\ DATABASE_URL = FALSE
    /\ development_mode \in BOOLEAN
    /\ routes_has_code = FALSE
    /\ complaint_type_not_null = TRUE

\* the schema init_db creates, on either database
InitDeployed ==
    /\ InitTables
    /\ DATABASE_URL \in BOOLEAN
    /\ development_mode = FALSE
    /\ routes_has_code = FALSE
    /\ complaint_type_not_null = TRUE

NextAssign ==
    \/ FindAdminForComplaint
    \/ create_route
    \/ update_route
    \/ delete_route
    \/ create_admin
    \/ toggle_admin_status
    \/ update_admin_routes
    \/ delete_admin_assignments
    \/ delete_admin

SpecAssign == Init /\ [][NextAssign]_vars

\* replacements of an admin's routes, statement by statement, beside resolver
\* calls; a handler that writes waits for the write lock
NextReplace ==
    \/ FindAdminForComplaint
    \/ (WriteLockFree /\ create_route)
    \/ (WriteLockFree /\ create_admin)
    \/ \E w \in Replacers : update_admin_routes_delete(w)
    \/ \E w \in Replacers : update_admin_routes_insert(w)
    \/ \E w \in Replacers : update_admin_routes_commit(w)
SpecReplace == InitCode /\ [][NextReplace]_vars

\* complaints from their creation through the assignment handlers
NextComplaints ==
    \/ create_route
    \/ (seq.users <= HeadId + MaxComplaintAdmins /\ create_admin)
    \/ (seq.complaints <= MaxComplaints /\ create_complaint)
    \/ assign_complaint
    \/ update_complaint
    \/ assign_complaint_to_admin
    \/ unassign_complaint
    \/ bulk_assign_complaints
SpecComplaints == InitLegacy /\ [][NextComplaints]_vars

\* a complaint coming in while the head changes the admins
NextIntake ==
    \/ create_route
    \/ (seq.users <= HeadId + MaxComplaintAdmins /\ create_admin)
    \/ \E w \in Workers : create_complaint_resolve(w)
    \/ \E w \in Workers : (seq.complaints <= MaxComplaints /\ create_complaint_insert(w))
    \/ toggle_admin_status
    \/ update_admin_routes
    \/ delete_admin_assignments
    \/ delete_admin
SpecIntake == InitLegacy /\ [][NextIntake]_vars

\* the handlers through which admins and the head work on a complaint
NextHandling ==
    \/ create_route
    \/ (seq.users <= HeadId + MaxComplaintAdmins /\ create_admin)
    \/ (seq.complaints <= MaxComplaints /\ create_complaint)
    \/ update_complaint_status
    \/ respond_to_complaint
    \/ update_complaint
SpecHandling == InitLegacy /\ [][NextHandling]_vars

\* the resolver with the bus lookup, on a storage that can fail
NextResolver ==
    \/ FindAdminForComplaint
    \/ FindAdminForComplaintStorageFault
    \/ create_route
    \/ delete_route
    \/ create_bus
    \/ delete_bus
    \/ create_admin
SpecResolver == Init /\ [][NextResolver]_vars

\* the registration flow, minute by minute
NextReg ==
    \/ MinutePasses
    \/ (CodesIssued < MaxCodes /\ register_request)
    \/ (seq.users <= MaxUserId /\ register_verify)
    \/ (CodesIssued < MaxCodes /\ register_resend)
    \/ delete_user
SpecReg == InitAuth /\ [][NextReg]_vars

\* the password-reset flow, minute by minute
NextReset ==
    \/ MinutePasses
    \/ (CodesIssued < MaxCodes /\ request_otp)
    \/ verify_otp
    \/ reset_password
SpecReset == InitAuth /\ [][NextReset]_vars

\* one code of either flow, from issuance to beyond its expiry
NextExpiry ==
    \/ MinutePasses
    \/ (CodesIssued < MaxExpiryCodes /\ register_request)
    \/ (seq.users <= MaxUserId /\ register_verify)
    \/ (CodesIssued < MaxExpiryCodes /\ request_otp)
    \/ verify_otp
SpecExpiry == InitAuth /\ [][NextExpiry]_vars

\* the rate limiter, half a minute at a time
NextRate ==
    \/ Tick
    \/ (CodesIssued < MaxRequests /\ request_otp)
SpecRate == InitAuth /\ [][NextRate]_vars

\* a password reset for an address with a registration under way
NextMixed ==
    \/ (CodesIssued < MaxCodes /\ register_request)
    \/ (seq.users <= MaxUserId /\ register)
    \/ (CodesIssued < MaxCodes /\ request_otp)
    \/ verify_otp
    \/ reset_password
SpecMixed == InitAuth /\ [][NextMixed]_vars

\* ---- the server restarts on ephemeral storage ----------------------------
\* The database file is gone and init_db builds it anew; the registration
\* tokens are held by the clients and stay as they are.
db_wiped ==
    /\ registration_otp # {} \/ otp_rate_limit # {} \/ users # {HeadUser}
    /\ users' = {HeadUser}
    /\ routes' = {}
    /\ buses' = {}
    /\ admin_assignments' = {}
    /\ seq' = [seq EXCEPT !.users = HeadId + 1, !.routes = 1, !.buses = 1,
                          !.registration_otp = 1, !.password_reset_otp = 1,
                          !.otp_rate_limit = 1, !.complaints = 1]
    /\ registration_otp' = {}
    /\ password_reset_otp' = {}
    /\ otp_rate_limit' = {}
    /\ vtokens' = {}
    /\ complaints' = {}
    /\ creq' = NoRequest
    /\ resolved' = NoCall
    /\ resp' = NoResponse
    /\ UNCHANGED <<envVars, complaint_type_not_null, now, mailbox, tokens, worker>>

\* the registration flow on a store that can be lost
NextLoss ==
    \/ MinutePasses
    \/ (CodesIssued < MaxCodes /\ register_request)
    \/ (seq.users <= MaxUserId /\ register_verify)
    \/ db_wiped
SpecLoss == InitAuth /\ [][NextLoss]_vars

\* every handler that writes the users table from the auth side, one code
NextCredentials ==
    \/ (CodesIssued < MaxExpiryCodes /\ register_request)
    \/ (seq.users <= MaxUserId /\ register_verify)
    \/ (seq.users <= MaxUserId /\ register)
    \/ (CodesIssued < MaxExpiryCodes /\ request_otp)
    \/ verify_otp
    \/ reset_password
    \/ change_password
    \/ delete_user
SpecCredentials == InitAuth /\ [][NextCredentials]_vars

\* two reset_password requests served at the same time
NextRace ==
    \/ (CodesIssued < MaxCodes /\ request_otp)
    \/ verify_otp
    \/ \E w \in Workers : reset_password_select(w)
    \/ \E w \in Workers : reset_password_commit(w)
SpecRace == InitAuth /\ [][NextRace]_vars

\* registrations of one address arriving together
NextSignup ==
    \/ (CodesIssued < MaxCodes /\ register_request)
    \/ (seq.users <= MaxUserId /\ register)
    \/ (seq.users <= MaxUserId /\ register_verify)
    \/ \E w \in Workers : register_verify_select(w)
    \/ \E w \in Workers : (seq.users <= MaxUserId /\ register_verify_insert(w))
SpecSignup == InitAuth /\ [][NextSignup]_vars

\* the three issuance paths, with and without e-mail credentials
NextLog ==
    \/ MinutePasses
    \/ (CodesIssued < MaxCodes /\ register_request)
    \/ (CodesIssued < MaxCodes /\ register_resend)
    \/ (CodesIssued < MaxCodes /\ request_otp)
SpecLog == InitMail /\ [][NextLog]_vars

\* code requests for one address arriving together, on either database
NextIssue ==
    \/ (StoreFree /\ CodesIssued < MaxCodes /\ request_otp)
    \/ (StoreFree /\ verify_otp)
    \/ (StoreFree /\ CodesIssued < MaxCodes /\ register_request)
    \/ \E w \in Workers : request_otp_select(w)
    \/ \E w \in Workers : request_otp_invalidate(w)
    \/ \E w \in Workers : request_otp_commit(w)
SpecIssue == InitDeployed /\ [][NextIssue]_vars

(***************************************************************************)
(* Properties of the resolver                                              *)
(***************************************************************************)

\* the order of priorities the documentation states: high > medium > low
Rank(p) == CASE p = "high" -> 3 [] p = "medium" -> 2 [] p = "low" -> 1

\* assignment row a belongs to an active route named or coded R and to an
\* active user with role 'admin'
Qualifies(a, R) ==
    /\ \E r \in routes : r.id = a.route_id /\ r.is_active /\ (r.name = R \/ r.code = R)
    /\ \E u \in users : u.id = a.admin_id /\ u.is_active /\ u.role = "admin"

Qualifying(R) == { a \in admin_assignments : Qualifies(a, R) }

\* C1: when several active admins are assigned to the route of the call, the
\* admin returned holds an assignment of the highest priority among them, in
\* the order high > medium > low.
C1_HighestPriorityReturned ==
    (resolved.called /\ resolved.result.found) =>
        \E a \in Qualifying(resolved.route) :
            /\ a.admin_id = resolved.result.admin_id
            /\ \A b \in Qualifying(resolved.route) : Rank(b.priority) <= Rank(a.priority)

\* C2: a call with route R returns the admin of the only qualifying assignment
\* when there is exactly one, and None when there is none.
C2_SingleAssignmentResolved ==
    (resolved.called /\ resolved.route # "") =>
        /\ Cardinality(Qualifying(resolved.route)) = 1 =>
              /\ resolved.result.found
              /\ \E a \in Qualifying(resolved.route) : a.admin_id = resolved.result.admin_id
        /\ Qualifying(resolved.route) = {} => resolved.result = NoResult

\* a call returned the admin of the single qualifying assignment while another
\* admin assigned to the same route is deactivated or deleted
C2_Witness ==
    /\ resolved.called
    /\ resolved.result.found
    /\ Cardinality(Qualifying(resolved.route)) = 1
    /\ \E a \in admin_assignments :
          /\ ~Qualifies(a, resolved.route)
          /\ \E r \in routes : r.id = a.route_id /\ (r.name = resolved.route \/ r.code = resolved.route)

(***************************************************************************)
(* Properties of the OTP flows                                             *)
(***************************************************************************)

VerifyOps == {"register_verify", "verify_otp"}
FlowOf(op) == IF op = "register_verify" THEN "registration" ELSE "password_reset"

\* the codes sent for the flow and the e-mail of the verify call in resp
Sent == { m \in mailbox : m.flow = FlowOf(resp.op) /\ m.email = resp.email }

\* C3: once a newer code has been sent for the same e-mail and flow, a verify
\* call with a code sent earlier ends in the invalid-code outcome, whatever
\* registration token comes with it.
C3_OldCodeInvalid ==
    ( /\ resp.op \in VerifyOps
      /\ \E m \in Sent : m.code = resp.otp /\ ~m.latest
      /\ \E n \in Sent : n.latest /\ n.code # resp.otp )
    => resp.outcome = "invalid_code"

\* C4: a verify call with a code that a verify call has already accepted for
\* the e-mail (and that has not been sent again since) ends in the not-found
\* or the invalid-code outcome.
C4_NoReplay ==
    [][ ( /\ resp'.op \in VerifyOps
          /\ \E m \in mailbox :
                /\ m.flow = FlowOf(resp'.op) /\ m.email = resp'.email
                /\ m.code = resp'.otp /\ m.verified
          /\ ~\E n \in mailbox :
                /\ n.flow = FlowOf(resp'.op) /\ n.email = resp'.email
                /\ n.code = resp'.otp /\ ~n.verified )
        => resp'.outcome \in {"not_found", "invalid_code"} ]_vars

\* resp is the answer to a verify call with the code sent last for the
\* e-mail and flow, made more than OTP_EXPIRY_MINUTES after it was sent
VerifiedAfterExpiry ==
    /\ resp.op \in VerifyOps
    /\ \E m \in Sent :
          m.code = resp.otp /\ m.latest /\ now > m.at + Minutes(OTP_EXPIRY_MINUTES)

\* C5 as stated: such a call ends in the expired outcome.
C5_ExpiredOutcome == VerifiedAfterExpiry => resp.outcome = "expired"

\* C5: a verify call made after the expiry of the code never succeeds: no
\* account is created and no verification token is returned. It ends in the
\* expired, the not-found or the invalid-code outcome, and in not-found
\* exactly when neither a decodable token nor an unused row stands for the
\* pending record.
C5_ExpiredNeverVerifies ==
    VerifiedAfterExpiry =>
        /\ resp.status \notin {200, 201}
        /\ resp.vtoken = ""
        /\ resp.outcome \in {"expired", "not_found", "invalid_code"}
        /\ (resp.outcome = "not_found") <=> (resp.path = "none")

\* register-verify answered expired from the data of the registration token,
\* between the expiry of the code and the exp of the token
C5_Witness ==
    /\ VerifiedAfterExpiry
    /\ resp.op = "register_verify"
    /\ resp.path = "token"
    /\ resp.outcome = "expired"

\* C6: reset_password succeeds only with a verification token that a
\* successful verify-otp call returned for the e-mail.
C6_ResetOnlyAfterVerify ==
    (resp.op = "reset_password" /\ resp.status = 200)
    => [email |-> resp.email, token |-> resp.vtoken] \in vtokens

\* C7: of the reset_password requests that present the same verification
\* token, at most one changes the password.
C7_TokenSingleUse ==
    \A w1, w2 \in Workers :
        ( /\ w1 # w2
          /\ worker[w1].pc = "done" /\ worker[w1].status = 200
          /\ worker[w2].pc = "done" /\ worker[w2].status = 200
          /\ worker[w1].email = worker[w2].email
          /\ [email |-> worker[w1].email, token |-> worker[w1].vtoken] \in vtokens )
        => worker[w1].vtoken # worker[w2].vtoken

IssuingOps == {"register_request", "register_resend", "request_otp"}
Addresses == { lower(strip(e)) : e \in EmailInputs \cup ResetEmailInputs }

\* C8: a code request that passes the rate limiter finds no record (and
\* opens a window with count 1), or a window that began at least
\* OTP_RATE_LIMIT_WINDOW minutes ago (and restarts it with count 1), or
\* fewer than OTP_RATE_LIMIT_MAX requests in the running window (and counts
\* one more); a request that finds OTP_RATE_LIMIT_MAX requests in a running
\* window is rejected and sends no code. No record ever counts more than
\* OTP_RATE_LIMIT_MAX requests.
C8_RateLimitWindow ==
    [][ \A e \in Addresses :
          LET before == RateRecords(e)
              after == { r \in otp_rate_limit' : r.email = e }
              asked == resp'.op \in IssuingOps /\ resp'.email = e
              sent == asked /\ seq'.codes = seq.codes + 1
              rejected == asked /\ resp'.outcome = "rate_limited"
              full == \E b \in before :
                         /\ b.request_count >= OTP_RATE_LIMIT_MAX
                         /\ now - b.window_start < Minutes(OTP_RATE_LIMIT_WINDOW)
          IN
          /\ sent =>
                /\ ~full
                /\ \E a \in after :
                      IF \E b \in before :
                            now - b.window_start < Minutes(OTP_RATE_LIMIT_WINDOW)
                      THEN \E b \in before :
                              /\ a.request_count = b.request_count + 1
                              /\ a.window_start = b.window_start
                      ELSE a.request_count = 1 /\ a.window_start = now
          /\ rejected => full /\ mailbox' = mailbox /\ seq'.codes = seq.codes
                              /\ otp_rate_limit' = otp_rate_limit
          /\ (asked /\ full /\ resp'.op = "request_otp"
                /\ \E u \in UsersByEmail(e) : u.is_active) => rejected
          /\ \A a \in after : a.request_count <= OTP_RATE_LIMIT_MAX ]_vars

\* the request that follows OTP_RATE_LIMIT_MAX requests of one window, made
\* once the window is over, was allowed and restarted the window at count 1
C8_Witness ==
    /\ resp.op = "request_otp"
    /\ resp.issued # ""
    /\ seq.codes = OTP_RATE_LIMIT_MAX + 1
    /\ \E r \in RateRecords(resp.email) :
          /\ r.request_count = 1
          /\ r.window_start = now
          /\ now >= Minutes(OTP_RATE_LIMIT_WINDOW)

\* C9: the retry_after of a rate-limit rejection is strictly positive.
C9_RetryAfterPositive ==
    (resp.op \in IssuingOps /\ resp.outcome = "rate_limited") => resp.retry_after > 0

\* C10: after reset_password has succeeded with a verification token and a
\* new password P other than the old one, authenticate_user accepts P and
\* refuses the old password.
C10_NewPasswordAuthenticates ==
    ( /\ resp.op = "reset_password"
      /\ resp.status = 200
      /\ [email |-> resp.email, token |-> resp.vtoken] \in vtokens
      /\ ~check_password_hash(resp.prev_hash, resp.password) )
    => /\ authenticate_user(resp.email, resp.password) # NULL
       /\ \A old \in Passwords :
             check_password_hash(resp.prev_hash, old)
                => authenticate_user(resp.email, old) = NULL

\* C11: after a successful reset_password the e-mail has no row left in
\* password_reset_otp, none in registration_otp and none in otp_rate_limit.
C11_RowsClearedAfterReset ==
    (resp.op = "reset_password" /\ resp.status = 200) =>
        /\ ~\E r \in password_reset_otp : r.email = resp.email
        /\ ~\E r \in registration_otp : r.email = resp.email
        /\ RateRecords(resp.email) = {}

\* C12 as stated: the password hash of an existing account changes only
\* in a step of a successful reset_password.
C12_OnlyResetChangesHash ==
    [][ \A u \in users, v \in users' :
          (u.id = v.id /\ u.password_hash # v.password_hash)
          => (resp'.op = "reset_password" /\ resp'.status = 200) ]_vars

\* C12: the password hash of an existing account changes only in a step of
\* a successful reset_password for its e-mail, or of a successful
\* change-password request of the active account itself that presented the
\* current password.
C12_OnlyResetOrChangeChangesHash ==
    [][ \A u \in users, v \in users' :
          (u.id = v.id /\ u.password_hash # v.password_hash)
          => /\ resp'.status = 200
             /\ resp'.email = u.email
             /\ resp'.prev_hash = u.password_hash
             /\ \/ resp'.op = "reset_password"
                \/ /\ resp'.op = "change_password"
                   /\ u.is_active
                   /\ check_password_hash(u.password_hash, resp'.password) ]_vars

\* change-password has replaced the hash of an account
C12_Witness ==
    /\ resp.op = "change_password"
    /\ resp.status = 200
    /\ \E u \in users : u.email = resp.email /\ u.password_hash # resp.prev_hash

\* what register-request and register-resend hold for an e-mail: the name
\* and the password hash in its registration_otp row and in its tokens
Captured(email) ==
    { [name |-> c.name.core, password_hash |-> c.password_hash] :
      c \in { t \in tokens : t.email = email }
            \cup { r \in registration_otp : r.email = email } }

\* C13: a successful register-verify adds exactly one user, of role 'user',
\* whose name and password hash are those captured by a request for the
\* e-mail (the hash of a password the request accepted, stored as it is),
\* and leaves the e-mail without a registration_otp row and without a
\* rate-limit row.
C13_VerifyCreatesCapturedUser ==
    [][ (resp'.op = "register_verify" /\ resp'.status = 201) =>
          /\ \E u \in users' :
                /\ users' \ users = {u}
                /\ users \ users' = {}
                /\ { v \in users' : v.email = resp'.email } = {u}
                /\ u.role = "user"
                /\ [name |-> u.name, password_hash |-> u.password_hash]
                       \in Captured(resp'.email)
                /\ \E p \in RegPasswords :
                      /\ len(strip(p)) >= MIN_PASSWORD_LENGTH
                      /\ u.password_hash = generate_password_hash(strip(p))
          /\ ~\E r \in registration_otp' : r.email = resp'.email
          /\ ~\E r \in otp_rate_limit' : r.email = resp'.email ]_vars

\* register-verify has just created the account of the e-mail
C13_Witness ==
    /\ resp.op = "register_verify"
    /\ resp.status = 201
    /\ \E u \in users : u.email = resp.email /\ u.role = "user" /\ u.id # HeadId

\* the registration token presented decodes (our signature, exp ahead) and
\* is a token of the e-mail presented
ValidTokenPresented ==
    /\ resp'.token \in tokens
    /\ resp'.token.type = "pending_registration"
    /\ now < resp'.token.exp
    /\ resp'.token.email = resp'.email

\* C14: when the e-mail has no registration_otp row, register-verify with
\* a registration token of the e-mail that still decodes, the code of that
\* token and the clock not past the expiry the token carries creates the
\* account from the token (unless the e-mail is registered already);
\* without such a token the call falls back to the stored row and ends in
\* not-found, creating nothing.
C14_TokenSurvivesLostRow ==
    [][ (/\ resp'.op = "register_verify"
         /\ resp'.outcome # "invalid_format"
         /\ ~\E r \in registration_otp : r.email = resp'.email)
        => IF ValidTokenPresented
           THEN (/\ verify_otp_hash(resp'.otp, resp'.token.otp_hash)
                 /\ now <= resp'.token.expires_at
                 /\ UsersByEmail(resp'.email) = {})
                => /\ resp'.status = 201
                   /\ \E u \in users' \ users :
                         /\ u.email = resp'.email
                         /\ u.name = resp'.token.name.core
                         /\ u.password_hash = resp'.token.password_hash
           ELSE /\ resp'.outcome = "not_found"
                /\ resp'.status = 400
                /\ users' = users ]_vars

\* the account exists through the token of a request whose row the store
\* has lost
C14_Witness ==
    /\ resp.op = "register_verify"
    /\ resp.status = 201
    /\ resp.path = "token"
    /\ \E u \in users : u.email = resp.email /\ u.id = HeadId + 1
    /\ seq.registration_otp = 1
    /\ \E m \in mailbox : m.flow = "registration" /\ m.email = resp.email /\ m.verified

\* C15: the answer of request-otp does not depend on whether the e-mail
\* belongs to an account. An e-mail without an account is always answered
\* with status 200 and the generic message, so the answers are identical
\* exactly when every answer of request-otp is that one.
C15_AnswerHidesAccount ==
    resp.op = "request_otp" => (resp.status = 200 /\ resp.outcome = "generic")

\* C16: a call of find_admin_for_complaint never raises, whatever the
\* storage does.
C16_ResolverNeverRaises == resolved.called => ~resolved.result.raised

\* the names of the active routes an active bus of that number runs on
ActiveRouteNamesOfBus(bus_number) ==
    { r.name : r \in { x \in routes :
                         /\ x.is_active
                         /\ \E b \in buses : /\ b.bus_number = bus_number
                                             /\ b.is_active
                                             /\ b.route_id = x.id } }

\* C18: on a working storage, a call with no route and the number of an
\* active bus on an active route named X can return what the call with route
\* X can return on the same store, and nothing else; a call with no route and
\* a bus number that is unknown, inactive or on an inactive route returns
\* None.
C18_BusCallEqualsRouteCall ==
    /\ \A bus_number \in BusNumbers : \A X \in ActiveRouteNamesOfBus(bus_number) :
          find_admin_for_complaint("", bus_number) = find_admin_for_complaint(X, "")
    /\ (resolved.called /\ resolved.fault = "none"
        /\ resolved.route = "" /\ resolved.bus # "")
       => IF ActiveRouteNamesOfBus(resolved.bus) # {}
          THEN \A X \in ActiveRouteNamesOfBus(resolved.bus) :
                  resolved.result \in find_admin_for_complaint(X, "")
          ELSE resolved.result = NoResult

\* a call with the bus number alone has returned the admin of the bus's route
C18_Witness ==
    /\ resolved.called
    /\ resolved.fault = "none"
    /\ resolved.route = ""
    /\ resolved.bus # ""
    /\ resolved.result.found
    /\ ActiveRouteNamesOfBus(resolved.bus) # {}

C17_CreationSurvivesResolver ==
    (creq.op = "create_complaint" /\ creq.status # 400) =>
        /\ creq.status = 201
        /\ \E c \in complaints :
              /\ c.id = creq.complaint_id
              /\ c.assigned_to = IF creq.resolver.found THEN creq.resolver.admin_id ELSE NULL
              /\ c.district_id = IF creq.resolver.found THEN creq.resolver.district_id
                                 ELSE NULL

\* C20: the assigned_to of an existing complaint changes only in a step of a
\* request authenticated as head.
C20_OnlyHeadChangesAssignee ==
    [][ \A c \in complaints, d \in complaints' :
          (c.id = d.id /\ c.assigned_to # d.assigned_to) => creq'.role = "head" ]_vars

\* C21: while a replacement of an admin's routes is under way, and in the
\* step that ends it, the rows of that admin a resolver call reads are the
\* complete old set or the complete new set: the old set until the commit,
\* the new set from the commit on.
C21_ReplacementAtomic ==
    [][ \A w \in Workers :
          /\ worker'[w].pc = "replacing"
             => { a \in admin_assignments' : a.admin_id = worker'[w].admin_id }
                    = worker'[w].old
          /\ (worker[w].pc = "replacing" /\ worker'[w].pc # "replacing")
             => { a \in admin_assignments' : a.admin_id = worker[w].admin_id }
                    = NewAssignments(worker[w].admin_id, worker[w].route_ids, 1) ]_vars

\* a resolver call made after the DELETE and an INSERT of a replacement, and
\* before its commit, has returned the admin through a row of the old set
C21_Witness ==
    \E w \in Workers :
        /\ worker[w].pc = "replacing"
        /\ worker[w].i > 1
        /\ worker[w].old # {}
        /\ worker[w].old # NewAssignments(worker[w].admin_id, worker[w].route_ids, 1)
        /\ resolved.called
        /\ resolved.result.found
        /\ resolved.result.admin_id = worker[w].admin_id

\* the admins a resolver call with route R finds assigned to it
AdminsOf(R) == { a.admin_id : a \in Qualifying(R) }

AllowedInWindow(e, rec) ==
    { r \in password_reset_otp :
        /\ r.email = e
        /\ r.created_at >= rec.window_start
        /\ r.created_at < rec.window_start + Minutes(OTP_RATE_LIMIT_WINDOW) }

\* C24: check_rate_limit lets at most OTP_RATE_LIMIT_MAX code requests for an
\* address through in one window of OTP_RATE_LIMIT_WINDOW minutes, however
\* the requests interleave, and no record counts more than that.
C24_AtMostMaxPerWindow ==
    \A e \in Addresses : \A rec \in RateRecords(e) :
        /\ Cardinality(AllowedInWindow(e, rec)) <= OTP_RATE_LIMIT_MAX
        /\ rec.request_count <= OTP_RATE_LIMIT_MAX

\* C25: outside development mode no issuance path writes the plaintext code
\* to the log, and every stored row and every registration token holds the
\* hash of a code, never the code.
C25_PlaintextOnlyInDevelopmentLog ==
    /\ (resp.op \in IssuingOps /\ ~development_mode) => resp.logged = ""
    /\ \A r \in registration_otp \cup password_reset_otp :
          \E x \in Codes \cup { VTokenNames[i] : i \in 1..Len(VTokenNames) } :
             r.otp_hash = sha256(x)
    /\ \A t \in tokens : \E x \in Codes : t.otp_hash = sha256(x)

\* C26: a request of a regular admin changes the status or the admin
\* response of a complaint only when the complaint is assigned to that admin;
\* a request of a regular admin for any other complaint is rejected and
\* leaves the complaint as it was.  The head may change any complaint.
C26_AdminChangesOnlyOwnComplaint ==
    [][ \A c \in complaints :
          ( /\ creq'.role = "admin"
            /\ creq'.complaint_id = c.id
            /\ c.assigned_to # creq'.user_id
            /\ creq'.op \in {"update_complaint_status", "respond_to_complaint",
                              "update_complaint"} )
          => \A d \in complaints' :
                d.id = c.id => d.status = c.status /\ d.admin_response = c.admin_response
      ]_vars

\* C27: in every reachable state the assigned_to of a complaint is NULL or
\* the id of an existing, active user with role 'admin'.
C27_AssigneeIsActiveAdmin ==
    \A c \in complaints :
        \/ c.assigned_to = NULL
        \/ \E u \in users : u.id = c.assigned_to /\ u.role = "admin" /\ u.is_active

\* the pending record a register-verify call consults: the payload of its
\* registration token when the token is valid for the e-mail, else the row
ConsultedByRegisterVerify(r) ==
    IF /\ r.token.type # "none"
       /\ _decode_registration_token(r.token)
       /\ r.token.email = r.email
    THEN {TokenPending(r.token)}
    ELSE { p \in registration_otp : p.email = r.email }
\* the row a verify-otp call consults
ConsultedByVerifyOtp(r) ==
    LatestRows({ p \in password_reset_otp : p.email = r.email /\ ~p.used })

\* C28: a verify call that fails on a wrong code changes no state: the
\* pending records, their hashes and expiry times, the rate-limit counters,
\* the accounts and the tokens stay as they were; and a verify call with the
\* code of the pending record, made before the record expires, succeeds in
\* whatever state the earlier attempts have left.
C28_WrongCodeChangesNothing ==
    [][ /\ (resp'.op \in VerifyOps /\ resp'.outcome = "invalid_code")
            => UNCHANGED <<registration_otp, password_reset_otp, otp_rate_limit, users,
                           mailbox, tokens, vtokens, now>>
        /\ ( /\ resp'.op = "verify_otp"
             /\ \E p \in ConsultedByVerifyOtp(resp') :
                   p.otp_hash = sha256(resp'.otp) /\ now <= p.expires_at )
            => resp'.outcome = "ok"
        /\ ( /\ resp'.op = "register_verify"
             /\ UsersByEmail(resp'.email) = {}
             /\ \E p \in ConsultedByRegisterVerify(resp') :
                   p.otp_hash = sha256(resp'.otp) /\ now <= p.expires_at )
            => resp'.outcome = "ok"
      ]_vars

\* a verify call has just failed on a wrong code while the code it was
\* checked against is pending, unexpired, and the address has used part of
\* its rate-limit window
C28_Witness ==
    /\ resp.op \in VerifyOps
    /\ resp.outcome = "invalid_code"
    /\ \E r \in otp_rate_limit : r.email = resp.email /\ r.request_count >= 1
    /\ \E p \in (IF resp.op = "verify_otp" THEN ConsultedByVerifyOtp(resp)
                  ELSE ConsultedByRegisterVerify(resp)) :
          /\ now <= p.expires_at
          /\ \E c \in Codes : c # resp.otp /\ p.otp_hash = sha256(c)

\* C29: however register-verify requests with a valid code and legacy
\* register requests for one e-mail address interleave, at most one users row
\* of the address exists.
C29_OneAccountPerAddress ==
    \A e \in Addresses :
        Cardinality({ u \in users : lower(strip(u.email)) = e }) <= 1

\* C30: when the row of a new complaint is committed with an admin, that
\* admin is at that moment an active user with role 'admin' who holds an
\* assignment to an active route the complaint names, however the creation
\* interleaves with the head's changes to admins and assignments.
C30_AssigneeCurrentAtCommit ==
    [][ \A c \in complaints' :
          (c.assigned_to # NULL /\ \A d \in complaints : d.id # c.id) =>
             \E a \in admin_assignments' :
                /\ a.admin_id = c.assigned_to
                /\ \E u \in users' : u.id = a.admin_id /\ u.is_active /\ u.role = "admin"
                /\ \E r \in routes' : /\ r.id = a.route_id /\ r.is_active
                                       /\ (r.name = c.route \/ r.code = c.route)
      ]_vars

====
